---- MODULE Spec2Model ----
(***************************************************************************)
(* Model of the beacon monitor (package monitor): the log pipeline of      *)
(* log.go (dedup table, in-memory log list, report fan-in, collectors)     *)
(* and the health checks of monitor.go (check loops, result store,         *)
(* shutdown).                                                              *)
(*                                                                         *)
(* Text is a sequence of symbols.  A symbol is one byte of text, except    *)
(* that a whole well-formed leading timestamp ("2024-01-15T10:30:00Z") is  *)
(* one symbol "T0", "T1", ...; TsVal gives the instant it denotes.         *)
(* Instants and durations are counted in half-hours.                       *)
(***************************************************************************)
EXTENDS Integers, Sequences, FiniteSets, TLC

VARIABLES
    config,        \* Config: [LogSources : Seq(LogSource), SendTo, Token]
    now,           \* the wall clock (time.Now())
    logs,          \* LogManager.logs
    seenLogs,      \* LogManager.seenLogs : hash -> last seen timestamp
    collector,     \* LogCollector state of the source under study
    file,          \* the file at source.FilePath: [content, readable]
    containerLogs, \* container name -> lines the container runtime holds
    nextCleanup,   \* instant at which the hash-cleanup ticker fires next
    reports,       \* batches handed to reportLogs, in order
    monitor,       \* Monitor: [results, cancelled (m.ctx is done)]
    tasks,         \* goroutines of Monitor.Start: [start, loops, prometheus, posts]
    deploy,        \* the deploy agent: [status, tree, remote]
    obs            \* observations of the run (history, not program state)

vars == <<config, now, logs, seenLogs, collector, file, containerLogs,
          nextCleanup, reports, monitor, tasks, deploy, obs>>

-----------------------------------------------------------------------------
(* Text helpers *)

NL == "\n"
SP == " "

TsTokens == {"T0", "T1", "T2"}

TsVal(tok) == CASE tok = "T0" -> 0 [] tok = "T1" -> 1 [] tok = "T2" -> 2

IsSpace(c) == c = SP \/ c = NL

RECURSIVE TrimLeft(_)
TrimLeft(s) == IF s # <<>> /\ IsSpace(Head(s)) THEN TrimLeft(Tail(s)) ELSE s

RECURSIVE TrimRight(_)
TrimRight(s) ==
    IF s # <<>> /\ IsSpace(s[Len(s)]) THEN TrimRight(SubSeq(s, 1, Len(s) - 1)) ELSE s

\* strings.TrimSpace
TrimSpace(s) == TrimRight(TrimLeft(s))

\* strings.Split(s, "\n"): the pieces between newlines, the last one included
RECURSIVE SplitFrom(_, _)
SplitFrom(s, cur) ==
    IF s = <<>> THEN <<cur>>
    ELSE IF Head(s) = NL THEN <<cur>> \o SplitFrom(Tail(s), <<>>)
    ELSE SplitFrom(Tail(s), Append(cur, Head(s)))

SplitLines(s) == SplitFrom(s, <<>>)

\* regexp.MatchString for a literal pattern: the pattern occurs in the line
Matches(pattern, line) ==
    \E i \in 1..(Len(line) - Len(pattern) + 1) :
        SubSeq(line, i, i + Len(pattern) - 1) = pattern

-----------------------------------------------------------------------------
(* Program constants, in half-hours and entries *)

TimeWindow == 2        \* timeWindow := time.Hour
Retention == 48        \* cutoff := time.Now().Add(-24 * time.Hour)
CleanupPeriod == 12    \* time.NewTicker(6 * time.Hour)
MaxLogs == 1000        \* len(lm.logs) > 1000

-----------------------------------------------------------------------------
(* Log manager: pure parts *)

\* The zero value of LogSource, which addLogEntries uses when no configured
\* source carries the entry's source name.
ZeroSource ==
    [Name |-> <<>>, Type |-> <<>>, Enabled |-> FALSE, FollowFile |-> FALSE,
     UseTail |-> FALSE, DeployLogFile |-> <<>>,
     MaxLines |-> 0, Containers |-> <<>>, AllContainers |-> FALSE, Interval |-> 0,
     IncludePatterns |-> <<>>, ExcludePatterns |-> <<>>, Deduplicate |-> FALSE]

\* parseLogTimestamp: a leading timestamp followed by white space is parsed
\* and stripped; otherwise the line is kept whole and stamped time.Now().
parseLogTimestamp(line, t) ==
    IF Len(line) >= 2 /\ line[1] \in TsTokens /\ IsSpace(line[2])
    THEN [ts |-> TsVal(line[1]), content |-> TrimLeft(Tail(line))]
    ELSE [ts |-> t, content |-> line]

shouldIncludeLogLine_IncludeFirst(line, source) ==
    IF Len(source.IncludePatterns) > 0
    THEN \E i \in 1..Len(source.IncludePatterns) : Matches(source.IncludePatterns[i], line)
    ELSE ~\E i \in 1..Len(source.ExcludePatterns) : Matches(source.ExcludePatterns[i], line)

\* shouldIncludeLogLine
shouldIncludeLogLine(line, source) ==
    IF \E i \in 1..Len(source.ExcludePatterns) : Matches(source.ExcludePatterns[i], line)
    THEN FALSE
    ELSE IF Len(source.IncludePatterns) > 0
    THEN \E i \in 1..Len(source.IncludePatterns) : Matches(source.IncludePatterns[i], line)
    ELSE TRUE

\* generateLogHash: sha256 of "source|type|container|content".  sha256 is
\* taken to be collision free, so the hash is its input.
generateLogHash(entry) ==
    entry.Source \o <<"|">> \o entry.Type \o <<"|">> \o entry.Container
        \o <<"|">> \o entry.Content

Put(m, k, v) == [x \in DOMAIN m \cup {k} |-> IF x = k THEN v ELSE m[x]]

isDuplicateLog_AlwaysUpdate(seen, entry, source) ==
    IF ~source.Deduplicate THEN [dup |-> FALSE, seen |-> seen]
    ELSE LET hash == generateLogHash(entry) IN
         IF hash \notin DOMAIN seen
         THEN [dup |-> FALSE, seen |-> Put(seen, hash, entry.Timestamp)]
         ELSE [dup |-> entry.Timestamp - seen[hash] < TimeWindow,
               seen |-> Put(seen, hash, entry.Timestamp)]

\* isDuplicateLog: the verdict and the dedup table after the call
isDuplicateLog(seen, entry, source) ==
    IF ~source.Deduplicate THEN [dup |-> FALSE, seen |-> seen]
    ELSE LET hash == generateLogHash(entry) IN
         IF hash \notin DOMAIN seen
         THEN [dup |-> FALSE, seen |-> Put(seen, hash, entry.Timestamp)]
         ELSE IF entry.Timestamp - seen[hash] < TimeWindow
         THEN [dup |-> TRUE, seen |-> seen]
         ELSE [dup |-> FALSE, seen |-> Put(seen, hash, entry.Timestamp)]

cleanupOldHashes_DropAtCutoff(seen, t) ==
    LET cutoff == t - Retention IN
    [h \in {x \in DOMAIN seen : ~(seen[x] <= cutoff)} |-> seen[h]]

\* cleanupOldHashes at wall-clock time t
cleanupOldHashes(seen, t) ==
    LET cutoff == t - Retention IN
    [h \in {x \in DOMAIN seen : ~(seen[x] < cutoff)} |-> seen[h]]

\* The first configured source named like the entry, else the zero value
SourceOf(cfg, name) ==
    IF \E i \in 1..Len(cfg.LogSources) : cfg.LogSources[i].Name = name
    THEN cfg.LogSources[CHOOSE i \in 1..Len(cfg.LogSources) :
             /\ cfg.LogSources[i].Name = name
             /\ \A j \in 1..(i - 1) : cfg.LogSources[j].Name # name]
    ELSE ZeroSource

\* The loop of addLogEntries: hash every entry, drop the duplicates
RECURSIVE FilterDuplicates(_, _, _, _)
FilterDuplicates(cfg, seen, entries, acc) ==
    IF entries = <<>> THEN [seen |-> seen, filtered |-> acc]
    ELSE LET entry == [Head(entries) EXCEPT !.Hash = generateLogHash(Head(entries))]
             r == isDuplicateLog(seen, entry, SourceOf(cfg, entry.Source))
         IN FilterDuplicates(cfg, r.seen, Tail(entries),
                             IF r.dup THEN acc ELSE Append(acc, entry))

KeepLast(s, n) == IF Len(s) > n THEN SubSeq(s, Len(s) - n + 1, Len(s)) ELSE s

appendLogs_KeepOldest(ls, filtered) ==
    IF Len(ls \o filtered) > MaxLogs THEN SubSeq(ls \o filtered, 1, MaxLogs)
    ELSE ls \o filtered

\* The log list after appending a batch of survivors
appendLogs(ls, filtered) == KeepLast(ls \o filtered, MaxLogs)

-----------------------------------------------------------------------------
(* Bounds of the model *)

MaxBatch == 2      \* lines in one command output
MaxCalls == 2      \* addLogEntries calls in one run
MaxCleanups == 1   \* firings of the hash-cleanup ticker in one run
MaxBurst == 3      \* lines in one burst of a command
MaxContainerLines == 3   \* lines the container runtime holds, all containers together
MaxWrites == 3     \* bytes appended to the file in one run
MaxTruncates == 1  \* truncations of the file in one run
MaxIdle == 2       \* ticks counted since the last write to the file
MaxTicks == 2      \* ticks the tickers of the check loops fire in one run
MaxLineLen == 2    \* symbols in a line given to shouldIncludeLogLine
MaxPatterns == 2   \* patterns in an include or exclude list
MaxAppends == 2    \* whole lines appended to a followed file in one run
MaxClock == 2      \* half-hours that pass in one run of a followed file
MaxSamples == 2    \* ticks of the system-metrics task in one run
MaxSources == 2    \* log sources in the configuration given to StartLogCollection
MaxTags == 2       \* tags created in the remote repository in one run
MaxPolls == 4      \* polls of the deploy agent in one run
MaxScrapes == 2    \* requests made to the metrics endpoint in one run
MaxStarts == 2     \* calls of StartLogCollection on one manager

-----------------------------------------------------------------------------
(* Collectors *)

NewEntry(source, container, content, ts) ==
    [Source |-> source.Name, Type |-> source.Type, Container |-> container,
     Content |-> content, Timestamp |-> ts, Hash |-> <<>>]

RECURSIVE LinesToEntries_NoFilter(_, _, _)
LinesToEntries_NoFilter(lines, source, t) ==
    IF lines = <<>> THEN <<>>
    ELSE LET line == TrimSpace(Head(lines))
             rest == LinesToEntries_NoFilter(Tail(lines), source, t)
         IN IF line = <<>> THEN rest
            ELSE LET p == parseLogTimestamp(line, t)
                 IN <<NewEntry(source, <<>>, p.content, p.ts)>> \o rest

\* The loop shared by collectCommandLog and collectDeployLog: one entry per
\* non-empty trimmed line that passes the filters
RECURSIVE LinesToEntries(_, _, _)
LinesToEntries(lines, source, t) ==
    IF lines = <<>> THEN <<>>
    ELSE LET line == TrimSpace(Head(lines))
             rest == LinesToEntries(Tail(lines), source, t)
         IN IF line = <<>> THEN rest
            ELSE IF shouldIncludeLogLine(line, source)
            THEN LET p == parseLogTimestamp(line, t)
                 IN <<NewEntry(source, <<>>, p.content, p.ts)>> \o rest
            ELSE rest

\* collectCommandLog on the output of one run of the command
collectCommandLog(output, source, t) == LinesToEntries(SplitLines(output), source, t)

-----------------------------------------------------------------------------
(* State machine *)

Sources == 1..Len(config.LogSources)

Reporting_SendToOnly == config.SendTo # <<>>

\* addLogEntries: the condition under which the survivors go to reportLogs
Reporting == config.SendTo # <<>> /\ config.Token # <<>>

\* NewMonitor: an empty result store and a context that is not cancelled
\* readers: holders of the read lock of resultsMux
NoMonitor == [results |-> <<>>, cancelled |-> FALSE, readers |-> 0]

\* No goroutine of Monitor.Start exists
\* (metrics: the AgentMetrics samples POSTed to /agent/metrics, in order)
NoTasks ==
    [start |-> "new", loops |-> <<>>, prometheus |-> "off", posts |-> {},
     metrics |-> <<>>, procs |-> <<>>, handlers |-> <<>>,
     dedup |-> <<>>, stat |-> <<>>, lm |-> <<>>]

\* The deploy agent before its first poll: state.Status with no tag stored,
\* no working tree at cfg.LocalPath, no tag in the remote repository
NoDeploy ==
    [status |-> [LastTag |-> <<>>, LastDeployed |-> 0], tree |-> [state |-> "absent", ref |-> <<>>],
     remote |-> <<>>]

NoObs ==
    [op |-> "init", src |-> 0, at |-> 0, since |-> 0, output |-> <<>>, batch |-> <<>>,
     survivors |-> <<>>, seenBefore |-> <<>>, calls |-> 0, cleanups |-> 0,
     appended |-> <<>>,
     \* file collector: lastPosition and file size when the tick began, the
     \* offset it read from, whether it followed a truncation
     posBefore |-> 0, sizeBefore |-> 0, readFrom |-> 0, rotated |-> FALSE,
     \* file history: content at task start, how many leading bytes of it are
     \* still in place, truncated since the last tick, number of writes
     initial |-> <<>>, baseline |-> 0, truncated |-> FALSE, writes |-> 0,
     truncates |-> 0, ticks |-> 0, collected |-> <<>>,
     \* the answer of shouldIncludeLogLine
     kept |-> FALSE]

\* The end of a tick: the run loop hands a non-empty batch to addLogEntries
\* (an empty batch changes nothing); o is obs with what the tick itself observed
AddLogEntries(i, output, entries, o) ==
    \E r \in {FilterDuplicates(config, seenLogs, entries, <<>>)} :
       /\ seenLogs' = r.seen
       /\ logs' = IF r.filtered = <<>> THEN logs ELSE appendLogs(logs, r.filtered)
       /\ reports' = IF r.filtered # <<>> /\ Reporting
                     THEN Append(reports, r.filtered) ELSE reports
       /\ obs' = [o EXCEPT
                    !.op = "tick", !.src = i, !.at = now,
                    !.since = collector[i].lastTimestamp, !.output = output,
                    !.batch = entries, !.survivors = r.filtered,
                    !.seenBefore = seenLogs,
                    !.calls = IF entries = <<>> THEN @ ELSE @ + 1,
                    !.appended = @ \o r.filtered]

\* Sequences over S of length at most n
SeqsUpTo(S, n) == UNION {[1..k -> S] : k \in 0..n}

RECURSIVE JoinLines(_)
JoinLines(ls) == IF ls = <<>> THEN <<>> ELSE Head(ls) \o <<NL>> \o JoinLines(Tail(ls))

\* Lines a command may print
CmdLines ==
    {<<"T0", SP, "a">>, <<"T1", SP, "a">>, <<"a">>, <<"T0", SP, "b">>}

\* What one run of the command may print
CmdOutputs == {JoinLines(ls) : ls \in SeqsUpTo(CmdLines, MaxBatch)}

\* One tick of runCommandLogCollection
CommandTickOn(i, outputs) ==
    /\ config.LogSources[i].Type = <<"command">>
    /\ obs.calls < MaxCalls
    /\ \E output \in outputs :
         AddLogEntries(i, output, collectCommandLog(output, config.LogSources[i], now), obs)
    /\ UNCHANGED <<deploy, monitor, tasks, config, now, collector, file, containerLogs, nextCleanup>>

CommandTick(i) == CommandTickOn(i, CmdOutputs)

\* A command that prints the same line one to MaxBurst times
BurstOutputs == {JoinLines([k \in 1..n |-> <<"a">>]) : n \in 1..MaxBurst}

CommandBurstTick(i) == CommandTickOn(i, BurstOutputs)

\* Time passes until the hash-cleanup ticker is due
AdvanceTime ==
    /\ now < nextCleanup
    /\ obs.cleanups < MaxCleanups
    /\ now' = nextCleanup
    /\ UNCHANGED <<deploy, monitor, tasks, config, logs, seenLogs, collector, file, containerLogs,
                   nextCleanup, reports, obs>>

\* startHashCleanup: the 6-hour ticker fires
HashCleanupTick ==
    /\ now = nextCleanup
    /\ obs.cleanups < MaxCleanups
    /\ seenLogs' = cleanupOldHashes(seenLogs, now)
    /\ nextCleanup' = nextCleanup + CleanupPeriod
    /\ obs' = [obs EXCEPT !.op = "cleanup", !.cleanups = @ + 1, !.seenBefore = seenLogs]
    /\ UNCHANGED <<deploy, monitor, tasks, config, now, logs, collector, file, containerLogs, reports>>

CommandSource(dedup, excl) ==
    [ZeroSource EXCEPT !.Name = <<"cmd">>, !.Type = <<"command">>, !.Enabled = TRUE,
                       !.Interval = 1,
                       !.ExcludePatterns = excl, !.Deduplicate = dedup]

\* The zero time.Time: before every instant, and what IsZero reports
ZeroTime == 0 - 1

\* A LogCollector as StartLogCollection creates it; strategy is the branch
\* runFileLogCollection took ("none" until it ran)
NoCollector == [lastPosition |-> 0, lastTimestamp |-> ZeroTime, strategy |-> "none"]

NoFile == [content |-> <<>>, readable |-> FALSE]

\* Wall-clock instants at which the agent may start: while the lines it reads
\* are fresh, or more than a day after they were written
StartTimes == {TimeWindow, Retention + TimeWindow + 1}

InitDedup ==
    /\ monitor = NoMonitor
    /\ tasks = NoTasks
    /\ deploy = NoDeploy
    /\ config = [LogSources |-> <<CommandSource(TRUE, << <<"b">> >>)>>,
                 SendTo |-> <<>>, Token |-> <<>>]
    /\ now \in StartTimes
    /\ logs = <<>>
    /\ seenLogs = <<>>
    /\ collector = [i \in {1} |-> NoCollector]
    /\ file = NoFile
    /\ containerLogs = <<>>
    /\ nextCleanup = now + CleanupPeriod
    /\ reports = <<>>
    /\ obs = NoObs

NextDedup ==
    \/ \E i \in Sources : CommandTick(i)
    \/ AdvanceTime
    \/ HashCleanupTick

SpecDedup == InitDedup /\ [][NextDedup]_vars

-----------------------------------------------------------------------------
(* Deduplication: claims *)

Abs(x) == IF x < 0 THEN -x ELSE x

Deduplicating(name) == SourceOf(config, name).Deduplicate

\* The last step was a tick of a deduplicating source that handed a batch over
DedupTick ==
    /\ obs.op = "tick"
    /\ obs.batch # <<>>
    /\ Deduplicating(config.LogSources[obs.src].Name)

Hashed(entry) == [entry EXCEPT !.Hash = generateLogHash(entry)]

\* C2 (as claimed): any two accepted entries of a deduplicating source with
\* the same (source, type, container, content) are stamped at least one hour
\* apart, whatever ticks and pruning passes happened.
C2_OneAcceptedPerWindow ==
    \A i, j \in 1..Len(logs) :
        (i < j /\ logs[i].Hash = logs[j].Hash /\ Deduplicating(logs[i].Source))
            => Abs(logs[j].Timestamp - logs[i].Timestamp) >= TimeWindow

\* C3: isDuplicateLog on one candidate of a deduplicating source: hash absent
\* => timestamp recorded, entry accepted; hash present and less than one hour
\* after last-seen => entry dropped, table unchanged; hash present and one
\* hour or more after last-seen => last-seen updated, entry accepted.
C3_DedupDecision ==
    (DedupTick /\ Len(obs.batch) = 1) =>
        LET e == Hashed(obs.batch[1])
            before == obs.seenBefore
        IN /\ e.Hash \notin DOMAIN before =>
                /\ obs.survivors = <<e>>
                /\ seenLogs = Put(before, e.Hash, e.Timestamp)
           /\ (e.Hash \in DOMAIN before /\ e.Timestamp - before[e.Hash] < TimeWindow) =>
                /\ obs.survivors = <<>>
                /\ seenLogs = before
           /\ (e.Hash \in DOMAIN before /\ e.Timestamp - before[e.Hash] >= TimeWindow) =>
                /\ obs.survivors = <<e>>
                /\ seenLogs = Put(before, e.Hash, e.Timestamp)

\* C3 witness: a candidate whose hash was last seen an hour or more earlier
\* has been accepted and its timestamp recorded.
C3_Witness ==
    /\ DedupTick /\ Len(obs.batch) = 1
    /\ generateLogHash(obs.batch[1]) \in DOMAIN obs.seenBefore
    /\ obs.batch[1].Timestamp - obs.seenBefore[generateLogHash(obs.batch[1])] >= TimeWindow
    /\ Len(obs.survivors) = 1
    /\ seenLogs # obs.seenBefore

\* The non-empty trimmed lines of the last output
OutputLines ==
    LET ls == SplitLines(obs.output)
    IN {TrimSpace(ls[k]) : k \in 1..Len(ls)} \ {<<>>}

\* Entries of the last batch that carry hash h, by position
Group(h) == {k \in 1..Len(obs.batch) : generateLogHash(obs.batch[k]) = h}

First(S) == CHOOSE k \in S : \A j \in S : k <= j

SurvivorsOf(h) == {m \in 1..Len(obs.survivors) : obs.survivors[m].Hash = h}

\* C4 (as claimed, in its most favourable case): in one batch of a
\* deduplicating source, several filter-passing lines of identical content
\* whose hash was not in the table leave exactly one survivor.
C4_ExactlyOneSurvivor ==
    DedupTick =>
        \A k \in 1..Len(obs.batch) :
            LET h == generateLogHash(obs.batch[k])
            IN (Cardinality(Group(h)) >= 2 /\ h \notin DOMAIN obs.seenBefore)
                   => Cardinality(SurvivorsOf(h)) = 1

\* C4 (amended): in one batch of a deduplicating source, the filters run
\* before any dedup-table update: every table entry the batch inserted or
\* updated is the hash of a filter-passing line and holds the timestamp of
\* such a line; and several filter-passing lines of identical content leave
\* exactly one survivor, the first of them, when their hash was not in the
\* table and each is stamped less than one hour after the first.
C4_FilterBeforeDedup ==
    DedupTick =>
        /\ \A h \in DOMAIN seenLogs :
              (h \notin DOMAIN obs.seenBefore \/ obs.seenBefore[h] # seenLogs[h]) =>
                  \E line \in OutputLines :
                      LET p == parseLogTimestamp(line, obs.at)
                          src == config.LogSources[obs.src]
                      IN /\ shouldIncludeLogLine(line, src)
                         /\ generateLogHash(NewEntry(src, <<>>, p.content, p.ts)) = h
                         /\ p.ts = seenLogs[h]
        /\ \A k \in 1..Len(obs.batch) :
              LET h == generateLogHash(obs.batch[k])
                  first == obs.batch[First(Group(h))]
              IN (/\ Cardinality(Group(h)) >= 2
                  /\ h \notin DOMAIN obs.seenBefore
                  /\ \A j \in Group(h) :
                        obs.batch[j].Timestamp - first.Timestamp < TimeWindow)
                     => /\ Cardinality(SurvivorsOf(h)) = 1
                        /\ \A m \in SurvivorsOf(h) : obs.survivors[m] = Hashed(first)

\* C4 witness: a batch held two filter-passing lines of one content, new to
\* the table; one of the two survived.
C4_Witness ==
    /\ DedupTick
    /\ \E k \in 1..Len(obs.batch) :
          LET h == generateLogHash(obs.batch[k])
          IN /\ Cardinality(Group(h)) >= 2
             /\ h \notin DOMAIN obs.seenBefore
             /\ Cardinality(SurvivorsOf(h)) = 1

-----------------------------------------------------------------------------
(* The in-memory log list at its capacity *)

\* A log list of n entries collected earlier from the two sources in turn
Prefill(n) ==
    [k \in 1..n |->
        Hashed(NewEntry(config.LogSources[1 + (k % 2)], <<>>, <<"a">>, 0))]

InitRing ==
    /\ monitor = NoMonitor
    /\ tasks = NoTasks
    /\ deploy = NoDeploy
    /\ config = [LogSources |-> <<CommandSource(FALSE, <<>>),
                                  [CommandSource(FALSE, <<>>) EXCEPT !.Name = <<"cmd2">>]>>,
                 SendTo |-> <<"u">>, Token |-> <<"k">>]
    /\ now \in StartTimes
    /\ \E n \in (MaxLogs - MaxBurst)..MaxLogs : logs = Prefill(n)
    /\ seenLogs = <<>>
    /\ collector = [i \in {1, 2} |-> NoCollector]
    /\ file = NoFile
    /\ containerLogs = <<>>
    /\ nextCleanup = now + CleanupPeriod
    /\ reports = <<>>
    /\ obs = [NoObs EXCEPT !.appended = logs]

NextRing == \E i \in Sources : CommandBurstTick(i)

SpecRing == InitRing /\ [][NextRing]_vars

\* C5: after every addLogEntries call the log list holds at most 1000
\* entries, and they are the most recently appended ones, in append order.
C5_RingKeepsNewest ==
    /\ Len(logs) <= MaxLogs
    /\ Len(logs) = IF Len(obs.appended) > MaxLogs THEN MaxLogs ELSE Len(obs.appended)
    /\ \A k \in 1..Len(logs) : logs[k] = obs.appended[Len(obs.appended) - Len(logs) + k]

\* C5 witness: more than 1000 entries have been appended, by both sources
\* in turn, and the list is at its capacity.
C5_Witness ==
    /\ obs.op = "tick"
    /\ Len(obs.appended) > MaxLogs
    /\ Len(logs) = MaxLogs
    /\ logs[MaxLogs].Source # logs[MaxLogs - 1].Source

-----------------------------------------------------------------------------
(* Docker collector *)

\* since.Format("2006-01-02T15:04:05") as the runtime reads it back: the
\* fraction of a second it drops is below the resolution of the model, and
\* the host clock is taken to be in UTC
formatSince(since) == since

RECURSIVE SelectSince(_, _)
SelectSince(lines, sinceArg) ==
    IF lines = <<>> THEN <<>>
    ELSE IF TsVal(Head(lines)[1]) >= sinceArg
    THEN <<Head(lines)>> \o SelectSince(Tail(lines), sinceArg)
    ELSE SelectSince(Tail(lines), sinceArg)

\* Output of "docker logs --since <sinceArg> --timestamps <container>"
DockerLogs(container, sinceArg) ==
    IF container \in DOMAIN containerLogs
    THEN JoinLines(SelectSince(containerLogs[container], sinceArg))
    ELSE <<>>

IsNewer_OrEqual(ts, since) == ts >= since

\* logTimestamp.After(since)
IsNewer(ts, since) == ts > since

\* The loop over the lines of one container's output
RECURSIVE DockerLinesToEntries(_, _, _, _, _)
DockerLinesToEntries(lines, source, container, since, t) ==
    IF lines = <<>> THEN <<>>
    ELSE LET line == TrimSpace(Head(lines))
             rest == DockerLinesToEntries(Tail(lines), source, container, since, t)
         IN IF line = <<>> THEN rest
            ELSE LET p == parseLogTimestamp(line, t)
                 IN IF IsNewer(p.ts, since) /\ shouldIncludeLogLine(p.content, source)
                    THEN <<NewEntry(source, container, p.content, p.ts)>> \o rest
                    ELSE rest

\* The loop over the containers; failed holds the containers for which the
\* docker command failed on this tick
RECURSIVE DockerEntries(_, _, _, _, _)
DockerEntries(containers, source, since, failed, t) ==
    IF containers = <<>> THEN <<>>
    ELSE LET c == Head(containers)
             rest == DockerEntries(Tail(containers), source, since, failed, t)
         IN IF c = <<>> \/ c \in failed THEN rest
            ELSE DockerLinesToEntries(SplitLines(DockerLogs(c, formatSince(since))),
                                      source, c, since, t) \o rest

\* Output of "docker ps --format {{.Names}}": the running containers
RunningContainers == << <<"c1">>, <<"c2">> >>

\* collectDockerLogSince; psOk tells whether "docker ps" succeeded
collectDockerLogSince(source, since, psOk, failed, t) ==
    IF source.AllContainers /\ ~psOk THEN <<>>
    ELSE DockerEntries(IF source.AllContainers THEN RunningContainers
                       ELSE source.Containers, source, since, failed, t)

Newest_LastEntry(entries, ts) ==
    IF entries = <<>> THEN ts ELSE entries[Len(entries)].Timestamp

\* The newest of ts and the timestamps of the entries
RECURSIVE Newest(_, _)
Newest(entries, ts) ==
    IF entries = <<>> THEN ts
    ELSE Newest(Tail(entries), IF Head(entries).Timestamp > ts
                               THEN Head(entries).Timestamp ELSE ts)

RECURSIVE DockerOutputs(_, _, _)
DockerOutputs(containers, since, failed) ==
    IF containers = <<>> THEN <<>>
    ELSE (IF Head(containers) \in failed THEN <<>>
          ELSE DockerLogs(Head(containers), formatSince(since)))
         \o DockerOutputs(Tail(containers), since, failed)

\* One tick of runDockerLogCollection
DockerTick(i) ==
    /\ config.LogSources[i].Type = <<"docker">>
    /\ \E psOk \in BOOLEAN, failed \in SUBSET {RunningContainers[k] : k \in 1..2} :
         /\ Cardinality(failed) <= 1
         /\ \E entries \in {collectDockerLogSince(config.LogSources[i],
                               collector[i].lastTimestamp, psOk, failed, now)} :
              /\ AddLogEntries(i, IF config.LogSources[i].AllContainers /\ ~psOk
                                      THEN <<>>
                                      ELSE DockerOutputs(RunningContainers,
                                               collector[i].lastTimestamp, failed),
                               entries, obs)
              /\ collector' = [collector EXCEPT ![i].lastTimestamp =
                                   Newest(entries, collector[i].lastTimestamp)]
    /\ UNCHANGED <<deploy, monitor, tasks, config, now, file, containerLogs, nextCleanup>>

RECURSIVE TotalLines(_)
TotalLines(cs) ==
    IF cs = <<>> THEN 0 ELSE Len(containerLogs[Head(cs)]) + TotalLines(Tail(cs))

\* A container writes a line; the runtime stamps it, never earlier than the
\* container's previous line
ContainerWrites ==
    /\ TotalLines(RunningContainers) < MaxContainerLines
    /\ \E c \in DOMAIN containerLogs, tok \in TsTokens, text \in {"a", "b"} :
         /\ containerLogs[c] # <<>> =>
                TsVal(containerLogs[c][Len(containerLogs[c])][1]) <= TsVal(tok)
         /\ containerLogs' = [containerLogs EXCEPT ![c] = Append(@, <<tok, SP, text>>)]
    /\ UNCHANGED <<deploy, monitor, tasks, config, now, logs, seenLogs, collector, file, nextCleanup,
                   reports, obs>>

DockerSource(interval, all, dedup) ==
    [ZeroSource EXCEPT !.Name = <<"dock">>, !.Type = <<"docker">>, !.Enabled = TRUE,
                       !.Interval = interval, !.AllContainers = all,
                       !.Containers = IF all THEN <<>> ELSE RunningContainers,
                       !.ExcludePatterns = << <<"b">> >>, !.Deduplicate = dedup]

\* runDockerLogCollection before its first tick: lastTimestamp is seeded
\* to time.Now().Add(-source.Interval)
InitDocker ==
    /\ monitor = NoMonitor
    /\ tasks = NoTasks
    /\ deploy = NoDeploy
    /\ \E interval \in {1, TimeWindow}, all \in BOOLEAN :
         config = [LogSources |-> <<DockerSource(interval, all, FALSE)>>,
                   SendTo |-> <<"u">>, Token |-> <<"k">>]
    /\ now = TimeWindow
    /\ logs = <<>>
    /\ seenLogs = <<>>
    /\ collector = [i \in {1} |->
                      [NoCollector EXCEPT !.lastTimestamp =
                                              now - config.LogSources[i].Interval]]
    /\ file = NoFile
    /\ containerLogs = [c \in {RunningContainers[k] : k \in 1..2} |-> <<>>]
    /\ nextCleanup = now + CleanupPeriod
    /\ reports = <<>>
    /\ obs = NoObs

NextDocker ==
    \/ \E i \in Sources : DockerTick(i)
    \/ ContainerWrites

SpecDocker == InitDocker /\ [][NextDocker]_vars

\* C1: no line stamped at or before the collector's last_timestamp, as it
\* stood at the start of the tick, is emitted by a docker tick.
C1_NothingOldEmitted ==
    (obs.op = "tick" /\ config.LogSources[obs.src].Type = <<"docker">>) =>
        \A k \in 1..Len(obs.batch) : obs.batch[k].Timestamp > obs.since

\* C1 witness: a tick emitted lines of both containers while the runtime
\* also returned a line stamped exactly last_timestamp, which was withheld.
C1_Witness ==
    /\ obs.op = "tick" /\ config.LogSources[obs.src].Type = <<"docker">>
    /\ \E j, k \in 1..Len(obs.batch) : obs.batch[j].Container # obs.batch[k].Container
    /\ \E line \in OutputLines : parseLogTimestamp(line, obs.at).ts = obs.since

-----------------------------------------------------------------------------
(* File collector *)

DefaultMaxLines == 100

initialPosition_WholeFileUnlessFollowing(source, size) ==
    IF source.FollowFile THEN size ELSE 0

\* The position runFileLogCollection starts from: stat.Size(), set again to
\* stat.Size() when FollowFile
initialPosition(source, size) == IF source.FollowFile THEN size ELSE size

\* runFileLogCollection up to its ticker: the strategy is chosen and, for
\* direct access, the file is opened and the position initialised
FileStart(i) ==
    /\ config.LogSources[i].Type = <<"file">>
    /\ collector[i].strategy = "none"
    /\ collector' = [collector EXCEPT ![i] =
          IF config.LogSources[i].UseTail \/ ~file.readable
          THEN [@ EXCEPT !.strategy = "tail"]
          ELSE [@ EXCEPT !.strategy = "direct",
                         !.lastPosition = initialPosition(config.LogSources[i],
                                                          Len(file.content))]]
    /\ obs' = [obs EXCEPT !.op = "start", !.src = i, !.initial = file.content,
                          !.baseline = Len(file.content), !.truncated = FALSE]
    /\ UNCHANGED <<deploy, monitor, tasks, config, now, logs, seenLogs, file, containerLogs, nextCleanup, reports>>

\* The pieces reader.ReadString('\n') returns before io.EOF: the lines that
\* end in a newline; what follows the last newline comes with io.EOF
ReadLines(text) ==
    LET pieces == SplitLines(text) IN SubSeq(pieces, 1, Len(pieces) - 1)

\* collectFileLogFromPosition on a file with this content
collectFileLogFromPosition(source, lastPosition, content, t) ==
    LET currentSize == Len(content)
        pos == IF currentSize < lastPosition THEN 0 ELSE lastPosition
    IN IF currentSize <= pos
       THEN [entries |-> <<>>, lastPosition |-> pos, readFrom |-> currentSize]
       ELSE [entries |-> LinesToEntries(ReadLines(SubSeq(content, pos + 1, currentSize)),
                                        source, t),
             lastPosition |-> currentSize, readFrom |-> pos]

\* What is recorded of a tick on the file: whether the file was truncated
\* since the tick before the last write, how many ticks have run since the
\* last write, and what they returned
FileObs(posBefore, readFrom, entries) ==
    [obs EXCEPT !.posBefore = posBefore, !.sizeBefore = Len(file.content),
                !.readFrom = readFrom,
                !.rotated = IF obs.op = "tick" THEN @ ELSE obs.truncated,
                !.truncated = FALSE,
                !.ticks = IF obs.op # "tick" THEN 1
                          ELSE IF @ < MaxIdle THEN @ + 1 ELSE @,
                !.collected = IF obs.op = "tick" THEN @ \o entries ELSE entries]

\* One tick of the direct-access loop of runFileLogCollection
FileTickDirect(i) ==
    /\ config.LogSources[i].Type = <<"file">>
    /\ collector[i].strategy = "direct"
    /\ obs.calls < MaxCalls
    /\ \E r \in {collectFileLogFromPosition(config.LogSources[i],
                     collector[i].lastPosition, file.content, now)} :
         /\ collector' = [collector EXCEPT ![i].lastPosition = r.lastPosition]
         /\ AddLogEntries(i, file.content, r.entries,
                          FileObs(collector[i].lastPosition, r.readFrom, r.entries))
    /\ UNCHANGED <<deploy, monitor, tasks, config, now, file, containerLogs, nextCleanup>>

\* Output of "tail -n <n> <file>": the last n lines
TailOutput(content, n) ==
    LET pieces == SplitLines(content)
        lines == IF pieces[Len(pieces)] = <<>>
                 THEN SubSeq(pieces, 1, Len(pieces) - 1) ELSE pieces
    IN JoinLines(KeepLast(lines, n))

\* The loop of collectFileLogWithTail over the lines of the output
RECURSIVE TailLinesToEntries(_, _, _, _)
TailLinesToEntries(lines, source, last, t) ==
    IF lines = <<>> THEN <<>>
    ELSE LET line == TrimSpace(Head(lines))
             rest == TailLinesToEntries(Tail(lines), source, last, t)
         IN IF line = <<>> THEN rest
            ELSE IF shouldIncludeLogLine(line, source)
            THEN LET p == parseLogTimestamp(line, t)
                 IN IF source.FollowFile /\ last # ZeroTime /\ p.ts < last THEN rest
                    ELSE <<NewEntry(source, <<>>, p.content, p.ts)>> \o rest
            ELSE rest

\* collectFileLogWithTail
collectFileLogWithTail(source, lastTimestamp, f, t) ==
    LET maxLines == IF source.MaxLines = 0 THEN DefaultMaxLines ELSE source.MaxLines
        first == source.FollowFile /\ lastTimestamp = ZeroTime
        n == IF first THEN maxLines
             ELSE IF source.FollowFile THEN maxLines * 2 ELSE maxLines
        last == IF first THEN t ELSE lastTimestamp
        entries == IF f.readable
                   THEN TailLinesToEntries(SplitLines(TailOutput(f.content, n)),
                                           source, last, t)
                   ELSE <<>>
        newest == Newest(entries, ZeroTime)
    IN [entries |-> entries,
        lastTimestamp |-> IF source.FollowFile /\ newest # ZeroTime THEN newest ELSE last]

\* One tick of runFileLogCollectionWithTail
FileTickTail(i) ==
    /\ config.LogSources[i].Type = <<"file">>
    /\ collector[i].strategy = "tail"
    /\ obs.calls < MaxCalls
    /\ \E r \in {collectFileLogWithTail(config.LogSources[i],
                     collector[i].lastTimestamp, file, now)} :
         /\ collector' = [collector EXCEPT ![i].lastTimestamp = r.lastTimestamp]
         /\ AddLogEntries(i, file.content, r.entries, FileObs(0, 0, r.entries))
    /\ UNCHANGED <<deploy, monitor, tasks, config, now, file, containerLogs, nextCleanup>>

FileSyms == {"a", "b", NL}

\* The writer of the log file appends a byte
FileAppend ==
    /\ obs.writes < MaxWrites
    /\ \E c \in FileSyms : file' = [file EXCEPT !.content = Append(@, c)]
    /\ obs' = [obs EXCEPT !.op = "write", !.writes = @ + 1]
    /\ UNCHANGED <<deploy, monitor, tasks, config, now, logs, seenLogs, collector, containerLogs,
                   nextCleanup, reports>>

\* The file is truncated to empty (rotation in place)
FileTruncate ==
    /\ obs.truncates < MaxTruncates
    /\ file.content # <<>>
    /\ file' = [file EXCEPT !.content = <<>>]
    /\ obs' = [obs EXCEPT !.op = "truncate", !.truncates = @ + 1,
                          !.truncated = TRUE, !.baseline = 0]
    /\ UNCHANGED <<deploy, monitor, tasks, config, now, logs, seenLogs, collector, containerLogs,
                   nextCleanup, reports>>

FileSource(follow, useTail) ==
    [ZeroSource EXCEPT !.Name = <<"f">>, !.Type = <<"file">>, !.Enabled = TRUE,
                       !.Interval = 1,
                       !.FollowFile = follow, !.UseTail = useTail, !.MaxLines = 1,
                       !.ExcludePatterns = << <<"b">> >>]

\* What the file may hold when the agent starts
InitialFiles == {<<>>, <<"a", NL>>, <<"a", NL, "b", NL>>}

InitFile ==
    /\ monitor = NoMonitor
    /\ tasks = NoTasks
    /\ deploy = NoDeploy
    /\ \E follow \in BOOLEAN, useTail \in BOOLEAN :
         config = [LogSources |-> <<FileSource(follow, useTail)>>,
                   SendTo |-> <<"u">>, Token |-> <<"k">>]
    /\ now = TimeWindow
    /\ logs = <<>>
    /\ seenLogs = <<>>
    /\ collector = [i \in {1} |-> NoCollector]
    /\ \E c \in InitialFiles, r \in BOOLEAN : file = [content |-> c, readable |-> r]
    /\ containerLogs = <<>>
    /\ nextCleanup = now + CleanupPeriod
    /\ reports = <<>>
    /\ obs = NoObs

NextFile ==
    \/ \E i \in Sources : FileStart(i)
    \/ \E i \in Sources : FileTickDirect(i)
    \/ \E i \in Sources : FileTickTail(i)
    \/ FileAppend
    \/ FileTruncate

SpecFile == InitFile /\ [][NextFile]_vars

-----------------------------------------------------------------------------
(* File collector: claims *)

\* The last step was a tick of the direct-access loop of a file source
DirectTick ==
    /\ obs.op = "tick"
    /\ config.LogSources[obs.src].Type = <<"file">>
    /\ collector[obs.src].strategy = "direct"

\* One entry per non-empty filter-passing line of the text, in order, the
\* line after the last newline included
AllLines(text) == LinesToEntries(SplitLines(text), config.LogSources[obs.src], obs.at)

\* The same for the lines that end in a newline
CompleteLines(text) ==
    LinesToEntries(SubSeq(SplitLines(text), 1, Len(SplitLines(text)) - 1),
                   config.LogSources[obs.src], obs.at)

\* C6 (as claimed): a direct read of a file of size N from last_position 0
\* emits every non-empty filter-passing line exactly once, in file order,
\* and leaves last_position = N, whether or not the last line ends with a
\* newline.
C6_ReadsWholeFile ==
    (DirectTick /\ obs.posBefore = 0 /\ obs.sizeBefore > 0) =>
        /\ obs.batch = AllLines(obs.output)
        /\ collector[obs.src].lastPosition = obs.sizeBefore

\* C7 (as claimed): a tick that finds the file smaller than last_position
\* reads it from offset 0, emits every line of the new content and leaves
\* last_position equal to the new size.
C7_TruncationRereadsAll ==
    (DirectTick /\ obs.sizeBefore < obs.posBefore) =>
        /\ obs.readFrom = 0
        /\ obs.batch = AllLines(obs.output)
        /\ collector[obs.src].lastPosition = obs.sizeBefore

\* C8 (as claimed, for the lines that end in a newline): with follow_file,
\* when the file was truncated and rewritten between two ticks, whatever its
\* new size, the ticks that follow the rewrite collect the new lines.
C8_RewrittenFileCollected ==
    (/\ DirectTick
     /\ config.LogSources[obs.src].FollowFile
     /\ obs.rotated
     /\ obs.ticks >= 2) =>
        obs.collected = CompleteLines(file.content)

C10_ExistingLinesCollected ==
    (/\ obs.op = "tick"
     /\ config.LogSources[obs.src].Type = <<"file">>
     /\ file.readable
     /\ ~config.LogSources[obs.src].FollowFile
     /\ ~config.LogSources[obs.src].UseTail
     /\ file.content = obs.initial /\ obs.baseline = Len(obs.initial)
     /\ obs.ticks >= 2) =>
        \A k \in 1..Len(CompleteLines(obs.initial)) :
            /\ \E j \in 1..Len(logs) :
                  logs[j].Content = CompleteLines(obs.initial)[k].Content
            /\ Reporting =>
                  \E b \in 1..Len(reports) : \E j \in 1..Len(reports[b]) :
                      reports[b][j].Content = CompleteLines(obs.initial)[k].Content

-----------------------------------------------------------------------------
(* Health checks (monitor.go): the probes *)

\* strconv of a non-negative integer, as fmt's %d prints it
Digits == <<"0", "1", "2", "3", "4", "5", "6", "7", "8", "9">>

RECURSIVE Itoa(_)
Itoa(n) == IF n < 10 THEN <<Digits[n + 1]>>
           ELSE Itoa(n \div 10) \o <<Digits[(n % 10) + 1]>>

\* http.NewRequest fails on a URL that url.Parse rejects; of the URLs used
\* here, ":" (missing protocol scheme)
NewRequestFails(url) == url # <<>> /\ Head(url) = ":"

\* The zero CheckResult
ZeroResult ==
    [Name |-> <<>>, Type |-> <<>>, Status |-> <<>>, Duration |-> 0, Timestamp |-> 0,
     Error |-> <<>>, HTTPStatusCode |-> 0, ResponseTime |-> 0,
     CommandOutput |-> <<>>, CommandError |-> <<>>]

\* What the outside world answers to one evaluation: the HTTP exchange
\* (transport error or response code), the TCP dial, and the run of the shell
\* command (whether it ran, its exit code, what it wrote)
ZeroEnv ==
    [transportOk |-> TRUE, code |-> 200, dialOk |-> TRUE, ran |-> TRUE, exit |-> 0,
     stdout |-> <<>>, stderr |-> <<>>]

executeHTTPCheck_ExpectedIsUp(check, env, t0, t1) ==
    LET result == [ZeroResult EXCEPT !.Name = check.Name, !.Type = <<"http">>,
                                     !.Timestamp = t0]
    IN IF NewRequestFails(check.URL)
       THEN [result EXCEPT !.Status = <<"error">>,
                           !.Error = <<"failed to create request: ", "parse">>]
       ELSE IF ~env.transportOk
       THEN [result EXCEPT !.ResponseTime = t1 - t0, !.Status = <<"down">>,
                           !.Error = <<"request failed: ", "dial">>]
       ELSE LET r == [result EXCEPT !.ResponseTime = t1 - t0,
                                    !.HTTPStatusCode = env.code]
            IN IF check.ExpectStatus > 0
               THEN IF env.code = check.ExpectStatus
                    THEN [r EXCEPT !.Status = <<"up">>]
                    ELSE [r EXCEPT !.Status = <<"down">>,
                                   !.Error = <<"expected status ">> \o Itoa(check.ExpectStatus)
                                             \o <<", got ">> \o Itoa(env.code)]
               ELSE IF env.code >= 200 /\ env.code < 300
               THEN [r EXCEPT !.Status = <<"up">>]
               ELSE [r EXCEPT !.Status = <<"down">>,
                              !.Error = <<"HTTP status ">> \o Itoa(env.code)]

\* executeHTTPCheck, entered at t0, the exchange over at t1
executeHTTPCheck(check, env, t0, t1) ==
    LET result == [ZeroResult EXCEPT !.Name = check.Name, !.Type = <<"http">>,
                                     !.Timestamp = t0]
    IN IF NewRequestFails(check.URL)
       THEN [result EXCEPT !.Status = <<"error">>,
                           !.Error = <<"failed to create request: ", "parse">>]
       ELSE IF ~env.transportOk
       THEN [result EXCEPT !.ResponseTime = t1 - t0, !.Status = <<"down">>,
                           !.Error = <<"request failed: ", "dial">>]
       ELSE LET r == [result EXCEPT !.ResponseTime = t1 - t0,
                                    !.HTTPStatusCode = env.code]
            IN IF check.ExpectStatus > 0 /\ env.code # check.ExpectStatus
               THEN [r EXCEPT !.Status = <<"down">>,
                              !.Error = <<"expected status ">> \o Itoa(check.ExpectStatus)
                                        \o <<", got ">> \o Itoa(env.code)]
               ELSE IF env.code >= 200 /\ env.code < 300
               THEN [r EXCEPT !.Status = <<"up">>]
               ELSE [r EXCEPT !.Status = <<"down">>,
                              !.Error = <<"HTTP status ">> \o Itoa(env.code)]

executePortCheck_DialError(check, env, t0) ==
    LET result == [ZeroResult EXCEPT !.Name = check.Name, !.Type = <<"port">>,
                                     !.Timestamp = t0]
    IN IF ~env.dialOk
       THEN [result EXCEPT !.Status = <<"error">>,
                           !.Error = <<"connection failed: ", "refused">>]
       ELSE [result EXCEPT !.Status = <<"up">>]

\* executePortCheck
executePortCheck(check, env, t0) ==
    LET result == [ZeroResult EXCEPT !.Name = check.Name, !.Type = <<"port">>,
                                     !.Timestamp = t0]
    IN IF ~env.dialOk
       THEN [result EXCEPT !.Status = <<"down">>,
                           !.Error = <<"connection failed: ", "refused">>]
       ELSE [result EXCEPT !.Status = <<"up">>]

\* The error cmd.Run returns: none when the command ran and exited with 0
RunError(env) ==
    IF ~env.ran THEN <<"context canceled">>
    ELSE IF env.exit # 0 THEN <<"exit status ">> \o Itoa(env.exit)
    ELSE <<>>

executeCommandCheck_OutputOnSuccessOnly(check, env, t0) ==
    LET result == [ZeroResult EXCEPT !.Name = check.Name, !.Type = <<"command">>,
                                     !.Timestamp = t0]
    IN IF RunError(env) # <<>>
       THEN [result EXCEPT !.Status = <<"down">>,
                           !.Error = <<"command failed: ">> \o RunError(env)]
       ELSE [result EXCEPT !.CommandOutput = TrimSpace(env.stdout),
                           !.CommandError = TrimSpace(env.stderr),
                           !.Status = <<"up">>]

\* executeCommandCheck
executeCommandCheck(check, env, t0) ==
    LET result == [ZeroResult EXCEPT !.Name = check.Name, !.Type = <<"command">>,
                                     !.Timestamp = t0,
                                     !.CommandOutput = TrimSpace(env.stdout),
                                     !.CommandError = TrimSpace(env.stderr)]
    IN IF RunError(env) # <<>>
       THEN [result EXCEPT !.Status = <<"down">>,
                           !.Error = <<"command failed: ">> \o RunError(env)]
       ELSE [result EXCEPT !.Status = <<"up">>]

checkResult_UnknownUnset(check, env, t0, t1) ==
    LET result ==
          IF check.Type = <<"http">> THEN executeHTTPCheck(check, env, t0, t1)
          ELSE IF check.Type = <<"port">> THEN executePortCheck(check, env, t0)
          ELSE IF check.Type = <<"command">> THEN executeCommandCheck(check, env, t0)
          ELSE [ZeroResult EXCEPT !.Name = check.Name, !.Type = check.Type,
                                  !.Timestamp = t1,
                                  !.Error = <<"unknown check type: ">> \o check.Type]
    IN [result EXCEPT !.Duration = t1 - t0, !.Timestamp = t1]

\* The result executeCheck computes: the switch on the type, then Duration
\* and Timestamp
checkResult(check, env, t0, t1) ==
    LET result ==
          IF check.Type = <<"http">> THEN executeHTTPCheck(check, env, t0, t1)
          ELSE IF check.Type = <<"port">> THEN executePortCheck(check, env, t0)
          ELSE IF check.Type = <<"command">> THEN executeCommandCheck(check, env, t0)
          ELSE [ZeroResult EXCEPT !.Name = check.Name, !.Type = check.Type,
                                  !.Status = <<"error">>, !.Timestamp = t1,
                                  !.Error = <<"unknown check type: ">> \o check.Type]
    IN [result EXCEPT !.Duration = t1 - t0, !.Timestamp = t1]

storeResult_KeepFirst(results, check, result) ==
    IF check.Name \in DOMAIN results THEN results ELSE Put(results, check.Name, result)

\* m.results[check.Name] = &result
storeResult(results, check, result) == Put(results, check.Name, result)

-----------------------------------------------------------------------------
(* Health checks (monitor.go): Monitor.Start and the check loops *)

logVars == <<logs, seenLogs, collector, file, containerLogs, nextCleanup, reports>>

Checks == 1..Len(config.Checks)

\* History of a run of the monitor
NoMonitorObs ==
    [op |-> "init", probe |-> 0, fired |-> 0,
     evals |-> <<>>,      \* per check: evaluations begun
     during |-> <<>>,     \* per check: ticks fired since its evaluation began
     last |-> <<>>,       \* name -> result of the evaluation completed last
     env |-> ZeroEnv, result |-> ZeroResult,
     \* system metrics: ticks run, what failed on the last one, samples sent
     \* before it
     samples |-> 0, errors |-> {}, sentBefore |-> 0,
     logged |-> <<>>]     \* lines the last evaluation wrote to the log

runCheckLoop_NoInitialCheck(check) ==
    [pc |-> "select", ticks |-> 0, running |-> 0, t0 |-> 0, ctxErr |-> FALSE]

\* runCheckLoop as its goroutine starts: the ticker is created (nothing in
\* ticker.C yet) and the initial check is next
runCheckLoop(check) ==
    [pc |-> "initial", ticks |-> 0, running |-> 0, t0 |-> 0, ctxErr |-> FALSE]

\* Monitor.Start up to the wait for the signal: the metrics server and one
\* goroutine per check are started
MonitorStart ==
    /\ tasks.start = "new"
    /\ tasks' = [tasks EXCEPT
          !.start = "waiting",
          !.prometheus = IF config.Report.PrometheusEnable THEN "listening" ELSE @,
          !.loops = [i \in Checks |-> runCheckLoop(config.Checks[i])]]
    /\ obs' = [obs EXCEPT !.op = "start",
                          !.evals = [i \in Checks |-> 0],
                          !.during = [i \in Checks |-> 0]]
    /\ UNCHANGED <<config, now, monitor>>
    /\ UNCHANGED <<logVars, deploy>>

\* Entry into executeCheck: start := time.Now(); for a command check,
\* exec.CommandContext is bound to m.ctx
BeginCheck(i, loop) ==
    /\ tasks' = [tasks EXCEPT !.loops[i] =
          [loop EXCEPT !.running = @ + 1, !.t0 = now, !.ctxErr = monitor.cancelled]]
    /\ obs' = [obs EXCEPT !.op = "begin", !.probe = i,
                          !.evals[i] = @ + 1, !.during[i] = 0]
    /\ UNCHANGED <<config, now, monitor>>
    /\ UNCHANGED <<logVars, deploy>>

\* runCheckLoop: "Run initial check"
InitialCheck(i) ==
    /\ tasks.start # "new"
    /\ tasks.loops[i].pc = "initial"
    /\ tasks.loops[i].running = 0
    /\ BeginCheck(i, tasks.loops[i])

\* runCheckLoop: select takes case <-ticker.C
TickCheck(i) ==
    /\ tasks.start # "new"
    /\ tasks.loops[i].pc = "select"
    /\ tasks.loops[i].running = 0
    /\ tasks.loops[i].ticks > 0
    /\ BeginCheck(i, [tasks.loops[i] EXCEPT !.ticks = @ - 1])

\* runCheckLoop: select takes case <-m.ctx.Done()
LoopExit(i) ==
    /\ tasks.start # "new"
    /\ tasks.loops[i].pc = "select"
    /\ tasks.loops[i].running = 0
    /\ monitor.cancelled
    /\ tasks' = [tasks EXCEPT !.loops[i].pc = "done"]
    /\ obs' = [obs EXCEPT !.op = "exit", !.probe = i]
    /\ UNCHANGED <<config, now, monitor>>
    /\ UNCHANGED <<logVars, deploy>>

tickerSend_Queue(ticks) == ticks + 1

\* The ticker's send on ticker.C, a channel of capacity 1: a tick that finds
\* the channel full is dropped
tickerSend(ticks) == IF ticks = 0 THEN 1 ELSE ticks

\* The interval of check i elapses (until ticker.Stop, deferred to the
\* return of runCheckLoop)
TickerFire(i) ==
    /\ tasks.start # "new"
    /\ tasks.loops[i].pc # "done"
    /\ obs.fired < MaxTicks
    /\ now' = now + 1
    /\ tasks' = [tasks EXCEPT !.loops[i].ticks = tickerSend(@)]
    /\ obs' = [obs EXCEPT !.op = "fire", !.probe = i, !.fired = @ + 1,
                          !.during[i] = @ + 1]
    /\ UNCHANGED <<config, monitor>>
    /\ UNCHANGED <<logVars, deploy>>

HttpCodes == {200, 299, 300, 404}
CommandOutputs == {<<>>, <<SP, "o", NL>>}
CommandErrors == {<<>>, <<"e", NL>>}

\* What the outside world may answer to an evaluation of this check
Envs(check, ctxErr) ==
    IF check.Type = <<"http">>
    THEN IF NewRequestFails(check.URL) THEN {ZeroEnv}
         ELSE {[ZeroEnv EXCEPT !.transportOk = FALSE]}
              \cup {[ZeroEnv EXCEPT !.code = c] : c \in HttpCodes}
    ELSE IF check.Type = <<"port">>
    THEN {[ZeroEnv EXCEPT !.dialOk = b] : b \in BOOLEAN}
    ELSE IF check.Type = <<"command">>
    THEN {[ZeroEnv EXCEPT !.ran = FALSE, !.stdout = o, !.stderr = x] :
             o \in CommandOutputs, x \in CommandErrors}
         \cup (IF ctxErr THEN {}
               ELSE {[ZeroEnv EXCEPT !.exit = e, !.stdout = o, !.stderr = x] :
                        e \in {0, 1}, o \in CommandOutputs, x \in CommandErrors})
    ELSE {ZeroEnv}

\* reportResult: the POST is made only with send_to and token set; posts
\* holds the result POSTed last
reportResult(posts, result) ==
    IF config.Report.SendTo = <<>> \/ config.Report.Token = <<>> THEN posts
    ELSE {result}

maxOutputLength == 200

\* strings.Join(strings.Fields(s), " ")
RECURSIVE JoinFields(_)
JoinFields(s) ==
    LET t == TrimLeft(s)
    IN IF t = <<>> THEN <<>>
       ELSE IF ~IsSpace(Head(s)) THEN <<Head(s)>> \o JoinFields(Tail(s))
       ELSE <<SP>> \o JoinFields(t)

\* Truncation of a command's output for the log
Truncated(s) ==
    IF Len(s) > maxOutputLength THEN SubSeq(s, 1, maxOutputLength) \o <<"...">> ELSE s

\* executeCheck, "Log result": the lines log.Printf writes for an evaluation;
\* the switch has no default case
checkLog(check, result) ==
    IF check.Type \in {<<"http">>, <<"port">>}
    THEN <<<<"[Beacon] Check (">> \o check.Type \o <<") ">> \o check.Name \o <<": ">>
             \o result.Status>>
    ELSE IF check.Type = <<"command">>
    THEN <<<<"[Beacon] Check (">> \o check.Type \o <<") ">> \o check.Name
             \o <<" - Output: ">> \o Truncated(JoinFields(TrimLeft(result.CommandOutput)))
             \o <<", Error: ">> \o Truncated(JoinFields(TrimLeft(result.CommandError)))>>
    ELSE <<>>

\* The rest of executeCheck: the probe returns, the result is stored under
\* m.resultsMux.Lock(), which waits for the holders of the read lock, and,
\* with send_to set, handed to a reportResult goroutine
CheckReturn(i) ==
    /\ tasks.start # "new"
    /\ tasks.loops[i].running > 0
    /\ monitor.readers = 0
    /\ \E env \in Envs(config.Checks[i], tasks.loops[i].ctxErr) :
         \E result \in {checkResult(config.Checks[i], env, tasks.loops[i].t0, now)} :
            /\ monitor' = [monitor EXCEPT
                  !.results = storeResult(@, config.Checks[i], result)]
            /\ tasks' = [tasks EXCEPT
                  !.loops[i].running = @ - 1,
                  !.loops[i].pc = IF @ = "initial" THEN "select" ELSE @,
                  !.posts = IF config.Report.SendTo # <<>>
                            THEN reportResult(@, result) ELSE @]
            /\ obs' = [obs EXCEPT !.op = "check", !.probe = i,
                                  !.env = env, !.result = result,
                                  !.logged = checkLog(config.Checks[i], result),
                                  !.last = Put(@, config.Checks[i].Name, result)]
    /\ UNCHANGED <<config, now>>
    /\ UNCHANGED <<logVars, deploy>>

\* Monitor.Start: the signal arrives and m.cancel() is called
Signal ==
    /\ tasks.start = "waiting"
    /\ monitor' = [monitor EXCEPT !.cancelled = TRUE]
    /\ tasks' = [tasks EXCEPT !.start = "stopping"]
    /\ obs' = [obs EXCEPT !.op = "signal"]
    /\ UNCHANGED <<config, now>>
    /\ UNCHANGED <<logVars, deploy>>

\* Monitor.Start: wg.Wait() returns when every check loop has returned
StartReturn ==
    /\ tasks.start = "stopping"
    /\ \A i \in Checks : tasks.loops[i].pc = "done"
    /\ tasks' = [tasks EXCEPT !.start = "returned"]
    /\ obs' = [obs EXCEPT !.op = "return"]
    /\ UNCHANGED <<config, now, monitor>>
    /\ UNCHANGED <<logVars, deploy>>

HttpCheck(name, url, expect) ==
    [Name |-> name, Type |-> <<"http">>, URL |-> url, Cmd |-> <<>>, Interval |-> 1,
     ExpectStatus |-> expect]

OtherCheck(name, type) ==
    [Name |-> name, Type |-> type, URL |-> <<>>, Cmd |-> <<"c">>, Interval |-> 1,
     ExpectStatus |-> 0]

\* The configurations explored for the scheduling of the loops: one or two
\* checks, with and without upstream, token and metrics server
MonitorCheckLists ==
    { <<OtherCheck(<<"p">>, <<"port">>), OtherCheck(<<"q">>, <<"ping">>)>>,
      <<OtherCheck(<<"p">>, <<"port">>)>> }

ReportConfigs ==
    { [SendTo |-> <<>>, Token |-> <<>>, PrometheusEnable |-> FALSE],
      [SendTo |-> <<"u">>, Token |-> <<"k">>, PrometheusEnable |-> TRUE],
      [SendTo |-> <<"u">>, Token |-> <<>>, PrometheusEnable |-> FALSE] }

\* NewMonitor(cfg), no log manager
InitMonitorWith(checkLists, reportConfigs) ==
    /\ \E cs \in checkLists, r \in reportConfigs : config = [Checks |-> cs, Report |-> r]
    /\ now = 0
    /\ monitor = NoMonitor
    /\ tasks = NoTasks
    /\ deploy = NoDeploy
    /\ logs = <<>>
    /\ seenLogs = <<>>
    /\ collector = <<>>
    /\ file = NoFile
    /\ containerLogs = <<>>
    /\ nextCleanup = 0
    /\ reports = <<>>
    /\ obs = NoMonitorObs

InitMonitor == InitMonitorWith(MonitorCheckLists, ReportConfigs)

NextMonitor ==
    \/ MonitorStart
    \/ \E i \in Checks : InitialCheck(i)
    \/ \E i \in Checks : TickCheck(i)
    \/ \E i \in Checks : CheckReturn(i)
    \/ \E i \in Checks : LoopExit(i)
    \/ \E i \in Checks : TickerFire(i)
    \/ Signal
    \/ StartReturn

SpecMonitor == InitMonitor /\ [][NextMonitor]_vars

\* One check of every kind, evaluated against every answer of the outside
\* world
ExpectStatuses == {0, 200, 404}

ProbeCheckLists ==
    {<<HttpCheck(<<"p">>, u, e)>> : u \in {<<"h">>, <<":">>}, e \in ExpectStatuses}
    \cup {<<OtherCheck(<<"p">>, t)>> : t \in {<<"port">>, <<"command">>, <<"ping">>}}

InitProbe ==
    InitMonitorWith(ProbeCheckLists,
                    {r \in ReportConfigs : (r.SendTo = <<>>) = (r.Token = <<>>)})

SpecProbe == InitProbe /\ [][NextMonitor]_vars

-----------------------------------------------------------------------------
(* Health checks: claims about the loops and the result store *)

\* C11: every check loop begins with one evaluation that waits for no tick;
\* every later evaluation takes a tick out of ticker.C; a loop returns only
\* when the context is cancelled, and a loop that has returned starts no
\* evaluation.
C11_InitialThenTicks ==
    [][\A i \in Checks :
          /\ (i \in DOMAIN tasks'.loops /\ tasks'.loops[i].pc \in {"select", "done"}) =>
                obs'.evals[i] >= 1
          /\ (i \in DOMAIN tasks.loops /\ obs'.evals[i] > obs.evals[i]) =>
                /\ tasks.loops[i].pc # "done"
                /\ IF obs.evals[i] = 0
                   THEN /\ tasks.loops[i].pc = "initial"
                        /\ tasks'.loops[i].ticks = tasks.loops[i].ticks
                   ELSE /\ tasks.loops[i].pc = "select"
                        /\ tasks.loops[i].ticks = 1
                        /\ tasks'.loops[i].ticks = 0
          /\ (/\ i \in DOMAIN tasks.loops
              /\ tasks.loops[i].pc # "done"
              /\ tasks'.loops[i].pc = "done") => monitor.cancelled
      ]_vars

\* C11 witness: a loop that ran its initial evaluation and one on a tick has
\* returned after the cancellation.
C11_Witness ==
    \E i \in DOMAIN tasks.loops :
        /\ tasks.loops[i].pc = "done"
        /\ obs.evals[i] >= 2
        /\ monitor.cancelled

\* C12: a check has at most one evaluation in progress, and however many
\* ticks fire during it at most one is pending when it returns.
C12_NoOverlapTicksCoalesced ==
    \A i \in DOMAIN tasks.loops :
        /\ tasks.loops[i].running <= 1
        /\ tasks.loops[i].ticks <= 1

\* C12 witness: two checks are being evaluated at once, and two ticks of one
\* of them fired during its evaluation, of which one is pending.
C12_Witness ==
    /\ \A i \in DOMAIN tasks.loops : tasks.loops[i].running = 1
    /\ Len(tasks.loops) = 2
    /\ \E i \in DOMAIN tasks.loops : obs.during[i] >= 2 /\ tasks.loops[i].ticks = 1

\* C13: the keys of the result store are names of configured checks, no more
\* of them than there are checks, and each holds the result of the evaluation
\* of that check that was completed last.
C13_StoreHoldsLatest ==
    /\ DOMAIN monitor.results \subseteq {config.Checks[i].Name : i \in Checks}
    /\ Cardinality(DOMAIN monitor.results) <= Len(config.Checks)
    /\ DOMAIN monitor.results = DOMAIN obs.last
    /\ \A n \in DOMAIN monitor.results : monitor.results[n] = obs.last[n]

\* C13 witness: both checks have a result, and the one stored last replaced
\* the result of an earlier evaluation of its check.
C13_Witness ==
    /\ obs.op = "check"
    /\ Cardinality(DOMAIN monitor.results) = 2
    /\ obs.evals[obs.probe] >= 2
    /\ monitor.results[config.Checks[obs.probe].Name] = obs.result
    /\ obs.result.Timestamp > 0

\* C18 (as claimed, for the tasks Monitor.Start starts): when Start returns,
\* every check loop and the metrics server have returned.
C18_StartWaitsForAllTasks ==
    tasks.start = "returned" =>
        /\ \A i \in DOMAIN tasks.loops : tasks.loops[i].pc = "done"
        /\ tasks.prometheus # "listening"

-----------------------------------------------------------------------------
(* Health checks: claims about the results of the probes *)

\* The last step completed an evaluation of a check of this type
Checked(type) == obs.op = "check" /\ config.Checks[obs.probe].Type = type

\* C14: every result in the store or POSTed upstream has status up, down or
\* error, and an up result has an empty error.
C14_StatusWellFormed ==
    \A r \in {monitor.results[n] : n \in DOMAIN monitor.results} \cup tasks.posts :
        /\ r.Status \in {<<"up">>, <<"down">>, <<"error">>}
        /\ r.Status = <<"up">> => r.Error = <<>>

\* C14 witness: an up result is in the store and has been POSTed.
C14_Witness ==
    \E n \in DOMAIN monitor.results :
        /\ monitor.results[n].Status = <<"up">>
        /\ monitor.results[n] \in tasks.posts

\* C15: the status is error exactly for a check of unknown type and for an
\* HTTP check whose request cannot be constructed; a transport error, an
\* unexpected HTTP status, a failed TCP connect and a command that fails or
\* exits with a non-zero code give down.
C15_ErrorOnlyForConfiguration ==
    obs.op = "check" =>
        LET c == config.Checks[obs.probe]
            e == obs.env
            unconstructible == c.Type = <<"http">> /\ NewRequestFails(c.URL)
            unknown == c.Type \notin {<<"http">>, <<"port">>, <<"command">>}
            unexpected == IF c.ExpectStatus > 0 THEN e.code # c.ExpectStatus
                          ELSE e.code < 200 \/ e.code >= 300
            failure == \/ c.Type = <<"http">> /\ ~unconstructible
                                             /\ (~e.transportOk \/ unexpected)
                       \/ c.Type = <<"port">> /\ ~e.dialOk
                       \/ c.Type = <<"command">> /\ (~e.ran \/ e.exit # 0)
        IN /\ (obs.result.Status = <<"error">>) = (unknown \/ unconstructible)
           /\ failure => obs.result.Status = <<"down">>

\* C15 witness: an HTTP check whose URL does not parse has been evaluated.
C15_Witness ==
    /\ Checked(<<"http">>)
    /\ NewRequestFails(config.Checks[obs.probe].URL)
    /\ obs.result.Status = <<"error">>

\* C16: an HTTP check that got a response with code c is down when
\* expect_status > 0 and c differs from it, otherwise up when 200 <= c < 300,
\* otherwise down with the error "HTTP status <c>".
C16_HTTPStatusDecision ==
    (/\ Checked(<<"http">>)
     /\ ~NewRequestFails(config.Checks[obs.probe].URL)
     /\ obs.env.transportOk) =>
        LET c == obs.env.code
            expect == config.Checks[obs.probe].ExpectStatus
        IN IF expect > 0 /\ c # expect THEN obs.result.Status = <<"down">>
           ELSE IF 200 <= c /\ c < 300 THEN obs.result.Status = <<"up">>
           ELSE /\ obs.result.Status = <<"down">>
                /\ obs.result.Error = <<"HTTP status ">> \o Itoa(c)

\* C16 witness: a check expecting 404 got 404 and is down with
\* "HTTP status 404".
C16_Witness ==
    /\ Checked(<<"http">>)
    /\ config.Checks[obs.probe].ExpectStatus = 404
    /\ obs.env.transportOk /\ obs.env.code = 404
    /\ obs.result.Status = <<"down">>
    /\ obs.result.Error = <<"HTTP status ", "4", "0", "4">>

\* C17: a command check is up exactly when the command ran and exited with
\* code 0, otherwise down with an error that starts with "command failed";
\* in both cases the trimmed stdout and stderr are in the result.
C17_CommandStatus ==
    Checked(<<"command">>) =>
        /\ (obs.result.Status = <<"up">>) = (obs.env.ran /\ obs.env.exit = 0)
        /\ obs.result.Status # <<"up">> =>
              /\ obs.result.Status = <<"down">>
              /\ obs.result.Error # <<>>
              /\ Head(obs.result.Error) = "command failed: "
        /\ obs.result.CommandOutput = TrimSpace(obs.env.stdout)
        /\ obs.result.CommandError = TrimSpace(obs.env.stderr)

\* C17 witness: a command that wrote to both streams and exited with code 1
\* is down, with both outputs in the result.
C17_Witness ==
    /\ Checked(<<"command">>)
    /\ obs.env.ran /\ obs.env.exit = 1
    /\ obs.result.Status = <<"down">>
    /\ obs.result.CommandOutput = <<"o">>
    /\ obs.result.CommandError = <<"e">>

-----------------------------------------------------------------------------
(* Log manager: reporting upstream *)

\* Two command sources without deduplication, with and without send_to and
\* token
InitReport ==
    /\ monitor = NoMonitor
    /\ tasks = NoTasks
    /\ deploy = NoDeploy
    /\ \E s \in {<<>>, <<"u">>}, k \in {<<>>, <<"k">>} :
          config = [LogSources |-> <<CommandSource(FALSE, <<>>),
                                     [CommandSource(FALSE, <<>>) EXCEPT !.Name = <<"cmd2">>]>>,
                    SendTo |-> s, Token |-> k]
    /\ now = TimeWindow
    /\ logs = <<>>
    /\ seenLogs = <<>>
    /\ collector = [i \in {1, 2} |-> NoCollector]
    /\ file = NoFile
    /\ containerLogs = <<>>
    /\ nextCleanup = now + CleanupPeriod
    /\ reports = <<>>
    /\ obs = NoObs

NextReport == \E i \in Sources : CommandBurstTick(i)

SpecReport == InitReport /\ [][NextReport]_vars

\* C19: a batch goes to reportLogs only with both send_to and token set; with
\* either empty nothing is ever reported, and the batch is appended to the
\* log list all the same.
C19_ReportOnlyWhenConfigured ==
    /\ (config.SendTo = <<>> \/ config.Token = <<>>) => reports = <<>>
    /\ (obs.op = "tick" /\ obs.survivors # <<>>) =>
          /\ Len(logs) >= Len(obs.survivors)
          /\ SubSeq(logs, Len(logs) - Len(obs.survivors) + 1, Len(logs)) = obs.survivors
          /\ (config.SendTo # <<>> /\ config.Token # <<>>) =>
                (reports # <<>> /\ reports[Len(reports)] = obs.survivors)

\* C19 witness: with send_to set and no token, a batch has been appended to
\* the log list and nothing was reported.
C19_Witness ==
    /\ config.SendTo # <<>> /\ config.Token = <<>>
    /\ obs.op = "tick" /\ obs.survivors # <<>>
    /\ logs = obs.survivors
    /\ reports = <<>>

-----------------------------------------------------------------------------
(* Log filter *)

FilterPatterns == {<<"a">>, <<"b">>, <<"a", "b">>}

\* A line and the include and exclude lists of its source
InitFilter ==
    /\ monitor = NoMonitor
    /\ tasks = NoTasks
    /\ deploy = NoDeploy
    /\ \E incl \in SeqsUpTo(FilterPatterns, MaxPatterns),
          excl \in SeqsUpTo(FilterPatterns, MaxPatterns) :
          config = [LogSources |-> <<[CommandSource(FALSE, excl)
                                         EXCEPT !.IncludePatterns = incl]>>,
                    SendTo |-> <<>>, Token |-> <<>>]
    /\ now = TimeWindow
    /\ logs = <<>>
    /\ seenLogs = <<>>
    /\ collector = [i \in {1} |-> NoCollector]
    /\ file = NoFile
    /\ containerLogs = <<>>
    /\ nextCleanup = now + CleanupPeriod
    /\ reports = <<>>
    /\ \E line \in SeqsUpTo({"a", "b"}, MaxLineLen) \ {<<>>} :
          obs = [NoObs EXCEPT !.output = line]

\* shouldIncludeLogLine is asked about the line
FilterLine(i) ==
    /\ obs.op = "init"
    /\ obs' = [obs EXCEPT !.op = "filter", !.src = i,
                          !.kept = shouldIncludeLogLine(obs.output, config.LogSources[i])]
    /\ UNCHANGED <<deploy, monitor, tasks, config, now, logs, seenLogs, collector, file,
                   containerLogs, nextCleanup, reports>>

NextFilter == \E i \in Sources : FilterLine(i)

SpecFilter == InitFilter /\ [][NextFilter]_vars

\* C20: a line is kept exactly when no exclude pattern matches it and the
\* include list is empty or one of its patterns matches; a line matching an
\* include and an exclude pattern is dropped.
C20_FilterDecision ==
    obs.op = "filter" =>
        LET source == config.LogSources[obs.src]
            excluded == \E k \in 1..Len(source.ExcludePatterns) :
                            Matches(source.ExcludePatterns[k], obs.output)
            included == \E k \in 1..Len(source.IncludePatterns) :
                            Matches(source.IncludePatterns[k], obs.output)
        IN /\ obs.kept = (~excluded /\ (source.IncludePatterns = <<>> \/ included))
           /\ (excluded /\ included) => ~obs.kept

\* C20 witness: the line "ab" with include "a" and exclude "b" is dropped.
C20_Witness ==
    /\ obs.op = "filter"
    /\ obs.output = <<"a", "b">>
    /\ config.LogSources[obs.src].IncludePatterns = << <<"a">> >>
    /\ config.LogSources[obs.src].ExcludePatterns = << <<"b">> >>
    /\ ~obs.kept

-----------------------------------------------------------------------------
(* File collector: a followed file whose lines carry timestamps *)

\* Lines the writers of the log file append; several writers share the file,
\* so a line may carry an earlier timestamp than the line before it
StampedLines ==
    {<<"T0", SP, "a">>, <<"T1", SP, "a">>, <<"T2", SP, "a">>, <<"T1", SP, "b">>}

\* A writer appends a whole line, stamped no later than the wall clock
FileAppendLine ==
    /\ obs.writes < MaxAppends
    /\ \E line \in StampedLines :
          /\ TsVal(line[1]) <= now
          /\ file' = [file EXCEPT !.content = @ \o line \o <<NL>>]
    /\ obs' = [obs EXCEPT !.op = "write", !.writes = @ + 1]
    /\ UNCHANGED <<deploy, monitor, tasks, config, now, logs, seenLogs, collector,
                   containerLogs, nextCleanup, reports>>

\* Half an hour passes
ClockTick ==
    /\ now < MaxClock
    /\ now' = now + 1
    /\ UNCHANGED <<deploy, monitor, tasks, config, logs, seenLogs, collector, file,
                   containerLogs, nextCleanup, reports, obs>>

FollowSource(useTail) == [FileSource(TRUE, useTail) EXCEPT !.MaxLines = 2]

InitFollow ==
    /\ monitor = NoMonitor
    /\ tasks = NoTasks
    /\ deploy = NoDeploy
    /\ \E useTail \in BOOLEAN :
         config = [LogSources |-> <<FollowSource(useTail)>>,
                   SendTo |-> <<"u">>, Token |-> <<"k">>]
    /\ now = 0
    /\ logs = <<>>
    /\ seenLogs = <<>>
    /\ collector = [i \in {1} |-> NoCollector]
    /\ \E c \in {<<>>, <<"T0", SP, "a", NL>>} : file = [content |-> c, readable |-> TRUE]
    /\ containerLogs = <<>>
    /\ nextCleanup = now + CleanupPeriod
    /\ reports = <<>>
    /\ obs = NoObs

NextFollow ==
    \/ \E i \in Sources : FileStart(i)
    \/ \E i \in Sources : FileTickDirect(i)
    \/ \E i \in Sources : FileTickTail(i)
    \/ FileAppendLine
    \/ ClockTick

SpecFollow == InitFollow /\ [][NextFollow]_vars

\* C21 (as claimed): the entries a file source with follow_file=true has
\* emitted, within a tick and across ticks, carry non-decreasing timestamps.
C21_FollowedTimestampsNonDecreasing ==
    \A j, k \in 1..Len(logs) :
        (/\ j < k
         /\ logs[j].Source = logs[k].Source
         /\ SourceOf(config, logs[j].Source).Type = <<"file">>
         /\ SourceOf(config, logs[j].Source).FollowFile)
            => logs[j].Timestamp <= logs[k].Timestamp

\* The last step was a tick of the tail strategy of a followed file
TailTick ==
    /\ obs.op = "tick"
    /\ config.LogSources[obs.src].Type = <<"file">>
    /\ config.LogSources[obs.src].FollowFile
    /\ collector[obs.src].strategy = "tail"

\* C26 (as claimed): a tick of the tail strategy emits only lines stamped
\* strictly after the high-water mark it started with (a line stamped exactly
\* at the mark is not emitted again), and leaves the mark at the newest
\* timestamp seen.
C26_TailEmitsOnlyNewer ==
    TailTick =>
        /\ \A k \in 1..Len(obs.batch) : obs.batch[k].Timestamp > obs.since
        /\ obs.batch # <<>> =>
              collector[obs.src].lastTimestamp = Newest(obs.batch, obs.since)

-----------------------------------------------------------------------------
(* System metrics (reportSystemMetrics) *)

\* The zero AgentMetrics
ZeroMetrics ==
    [Hostname |-> <<>>, IPAddress |-> <<>>, CPUUsage |-> 0, MemoryUsage |-> 0,
     UptimeSeconds |-> 0, Timestamp |-> 0, CustomMetrics |-> <<>>]

\* What the host answers to the SystemMetricsCollector when nothing fails
HostMetrics ==
    [ZeroMetrics EXCEPT !.Hostname = <<"h">>, !.IPAddress = <<"i">>, !.CPUUsage = 45,
                        !.MemoryUsage = 67, !.UptimeSeconds = 8]

\* The operations of the collector that may fail
MetricErrors == {"hostname", "cpu", "memory"}

\* The sample built on a tick: a metric that is disabled or fails stays zero
agentMetrics(cfg, errors, results, t) ==
    [ZeroMetrics EXCEPT
        !.Hostname = HostMetrics.Hostname,
        !.IPAddress = HostMetrics.IPAddress,
        !.CPUUsage = IF cfg.CPU /\ "cpu" \notin errors THEN HostMetrics.CPUUsage ELSE 0,
        !.MemoryUsage = IF cfg.Memory /\ "memory" \notin errors
                        THEN HostMetrics.MemoryUsage ELSE 0,
        !.UptimeSeconds = HostMetrics.UptimeSeconds,
        !.Timestamp = t,
        !.CustomMetrics = results]

reportSystemMetrics_IgnoreHostname(sent, cfg, errors, results, t) ==
    IF cfg.Report.SendTo = <<>> \/ cfg.Report.Token = <<>> THEN sent
    ELSE Append(sent, [agentMetrics(cfg.SystemMetrics, errors, results, t)
                          EXCEPT !.Hostname = IF "hostname" \in errors THEN <<>> ELSE @])

\* reportSystemMetrics: the samples POSTed to <send_to>/agent/metrics after a
\* tick on which these operations of the collector failed
reportSystemMetrics(sent, cfg, errors, results, t) ==
    IF cfg.Report.SendTo = <<>> \/ cfg.Report.Token = <<>> THEN sent
    ELSE IF "hostname" \in errors THEN sent
    ELSE Append(sent, agentMetrics(cfg.SystemMetrics, errors, results, t))

\* One tick of the system-metrics task
SystemMetricsTick ==
    /\ obs.samples < MaxSamples
    /\ \E errors \in SUBSET MetricErrors :
          /\ tasks' = [tasks EXCEPT !.metrics =
                          reportSystemMetrics(@, config, errors, monitor.results, now)]
          /\ obs' = [obs EXCEPT !.op = "metrics", !.samples = @ + 1, !.errors = errors,
                                !.sentBefore = Len(tasks.metrics)]
    /\ UNCHANGED <<config, now, monitor>>
    /\ UNCHANGED <<logVars, deploy>>

InitMetrics ==
    /\ \E s \in {<<>>, <<"u">>}, k \in {<<>>, <<"k">>}, cpu \in BOOLEAN, mem \in BOOLEAN :
          config = [Checks |-> <<>>,
                    Report |-> [SendTo |-> s, Token |-> k, PrometheusEnable |-> FALSE],
                    SystemMetrics |-> [Enabled |-> TRUE, CPU |-> cpu, Memory |-> mem]]
    /\ now = 0
    /\ monitor = NoMonitor
    /\ tasks = NoTasks
    /\ deploy = NoDeploy
    /\ logs = <<>>
    /\ seenLogs = <<>>
    /\ collector = <<>>
    /\ file = NoFile
    /\ containerLogs = <<>>
    /\ nextCleanup = 0
    /\ reports = <<>>
    /\ obs = NoMonitorObs

NextMetrics == SystemMetricsTick

SpecMetrics == InitMetrics /\ [][NextMetrics]_vars

\* C22: with send_to or token empty nothing is ever transmitted to
\* /agent/metrics, and a tick on which the hostname cannot be collected
\* transmits nothing; every sample transmitted names its host.
C22_MetricsOnlyWhenConfiguredAndNamed ==
    /\ (config.Report.SendTo = <<>> \/ config.Report.Token = <<>>) => tasks.metrics = <<>>
    /\ (obs.op = "metrics" /\ "hostname" \in obs.errors) =>
          Len(tasks.metrics) = obs.sentBefore
    /\ \A k \in 1..Len(tasks.metrics) : tasks.metrics[k].Hostname # <<>>

\* C22 witness: with send_to and token set, a sample was transmitted on one
\* tick and none on the next, on which the hostname could not be collected.
C22_Witness ==
    /\ config.Report.SendTo # <<>> /\ config.Report.Token # <<>>
    /\ obs.op = "metrics" /\ "hostname" \in obs.errors
    /\ obs.samples = 2
    /\ Len(tasks.metrics) = 1

-----------------------------------------------------------------------------
(* StartLogCollection: which sources get a collector *)

\* The source types StartLogCollection starts a collection loop for
KnownTypes == {<<"file">>, <<"docker">>, <<"deploy">>, <<"command">>}

\* lm.logCollectors, keyed by source name, after the loop of StartLogCollection
\* over the configured sources
logCollectors(cfg) ==
    [n \in {cfg.LogSources[i].Name :
               i \in {j \in 1..Len(cfg.LogSources) : cfg.LogSources[j].Enabled}}
        |-> NoCollector]

StartLogCollection ==
    /\ obs.op = "init"
    /\ collector' = logCollectors(config)
    /\ obs' = [obs EXCEPT !.op = "startlogs"]
    /\ UNCHANGED <<deploy, monitor, tasks, config, now, logs, seenLogs, file,
                   containerLogs, nextCleanup, reports>>

\* Source k of a configuration: its name is unique, its type and its
\* enabled flag are free
StartSources(k) ==
    {[ZeroSource EXCEPT !.Name = <<"s">> \o Itoa(k), !.Type = t, !.Enabled = e,
                        !.Interval = 1] :
        t \in KnownTypes \cup {<<"unknown-type">>}, e \in BOOLEAN}

\* NewLogManager on a configuration of one to MaxSources sources
InitStart ==
    /\ monitor = NoMonitor
    /\ tasks = NoTasks
    /\ deploy = NoDeploy
    /\ \E n \in 1..MaxSources :
         \E srcs \in [1..n -> UNION {StartSources(k) : k \in 1..n}] :
             /\ \A k \in 1..n : srcs[k] \in StartSources(k)
             /\ config = [LogSources |-> srcs, SendTo |-> <<>>, Token |-> <<>>]
    /\ now = TimeWindow
    /\ logs = <<>>
    /\ seenLogs = <<>>
    /\ collector = <<>>
    /\ file = NoFile
    /\ containerLogs = <<>>
    /\ nextCleanup = now + CleanupPeriod
    /\ reports = <<>>
    /\ obs = NoObs

NextStart == StartLogCollection

SpecStart == InitStart /\ [][NextStart]_vars

\* C23 (as claimed): after StartLogCollection the collectors map has an entry
\* for a configured source exactly when the source is enabled and its type is
\* file, docker, deploy or command.
C23_CollectorIffEnabledAndKnown ==
    obs.op = "startlogs" =>
        \A i \in Sources :
            (config.LogSources[i].Name \in DOMAIN collector)
                = (config.LogSources[i].Enabled /\ config.LogSources[i].Type \in KnownTypes)

-----------------------------------------------------------------------------
(* The deploy agent (deploy.go) *)

\* What the outside world answers during one poll: os.RemoveAll, git clone,
\* the deploy command, git fetch --tags
DeployEnvs == [removeOk : BOOLEAN, cloneOk : BOOLEAN, cmdOk : BOOLEAN, fetchOk : BOOLEAN]

\* getLatestTagFromRepo: the tag created last, "" when the fetch fails or the
\* repository has no tag
getLatestTagFromRepo(d, env) ==
    IF ~env.fetchOk \/ d.remote = <<>> THEN <<>> ELSE d.remote[Len(d.remote)]

\* Status.Set: the tag and the time are stored together
Set(status, tag, t) == [status EXCEPT !.LastTag = tag, !.LastDeployed = t]

Deploy_SetBeforeCommand(cfg, tag, d, env, t) ==
    IF ~env.removeOk
    THEN [deploy |-> d, cloned |-> FALSE, ranCommand |-> FALSE, err |-> TRUE]
    ELSE IF ~env.cloneOk
    THEN [deploy |-> [d EXCEPT !.tree = [state |-> "absent", ref |-> <<>>]],
          cloned |-> FALSE, ranCommand |-> FALSE, err |-> TRUE]
    ELSE LET tagToStore == IF tag = <<>> THEN <<"default">> ELSE tag
             cloned == [d EXCEPT !.tree = [state |-> "cloned", ref |-> tagToStore],
                                 !.status = Set(@, tagToStore, t)]
         IN [deploy |-> cloned, cloned |-> TRUE,
             ranCommand |-> cfg.DeployCommand # <<>>,
             err |-> cfg.DeployCommand # <<>> /\ ~env.cmdOk]

\* Deploy at time t: the deploy state after it, whether it cloned, whether it
\* ran the deploy command, whether it returned an error
Deploy(cfg, tag, d, env, t) ==
    IF ~env.removeOk
    THEN [deploy |-> d, cloned |-> FALSE, ranCommand |-> FALSE, err |-> TRUE]
    ELSE IF ~env.cloneOk
    THEN [deploy |-> [d EXCEPT !.tree = [state |-> "absent", ref |-> <<>>]],
          cloned |-> FALSE, ranCommand |-> FALSE, err |-> TRUE]
    ELSE LET tagToStore == IF tag = <<>> THEN <<"default">> ELSE tag
             cloned == [d EXCEPT !.tree = [state |-> "cloned", ref |-> tagToStore]]
         IN IF cfg.DeployCommand # <<>> /\ ~env.cmdOk
            THEN [deploy |-> cloned, cloned |-> TRUE, ranCommand |-> TRUE, err |-> TRUE]
            ELSE [deploy |-> [cloned EXCEPT !.status = Set(@, tagToStore, t)],
                  cloned |-> TRUE, ranCommand |-> cfg.DeployCommand # <<>>,
                  err |-> FALSE]

CheckForNewTag_AnyTag(cfg, d, env, t) ==
    LET idle == [deploy |-> d, cloned |-> FALSE, ranCommand |-> FALSE, err |-> FALSE]
    IN IF d.tree.state \in {"absent", "empty"}
       THEN [deployed |-> TRUE, tag |-> <<>>, latest |-> <<>>] @@ Deploy(cfg, <<>>, d, env, t)
       ELSE LET latestTag == getLatestTagFromRepo(d, env)
            IN IF latestTag = <<>>
               THEN [deployed |-> FALSE, tag |-> <<>>, latest |-> latestTag] @@ idle
               ELSE [deployed |-> TRUE, tag |-> latestTag, latest |-> latestTag]
                        @@ Deploy(cfg, latestTag, d, env, t)

\* CheckForNewTag: what the poll did (whether it called Deploy, with which
\* tag, the latest tag it read) and the deploy state after it
CheckForNewTag(cfg, d, env, t) ==
    LET idle == [deploy |-> d, cloned |-> FALSE, ranCommand |-> FALSE, err |-> FALSE]
    IN IF d.tree.state \in {"absent", "empty"}
       THEN [deployed |-> TRUE, tag |-> <<>>, latest |-> <<>>] @@ Deploy(cfg, <<>>, d, env, t)
       ELSE LET latestTag == getLatestTagFromRepo(d, env)
            IN IF latestTag = <<>> \/ latestTag = d.status.LastTag
               THEN [deployed |-> FALSE, tag |-> <<>>, latest |-> latestTag] @@ idle
               ELSE [deployed |-> TRUE, tag |-> latestTag, latest |-> latestTag]
                        @@ Deploy(cfg, latestTag, d, env, t)

\* History of a run of the deploy agent: the last poll and the deploy state
\* it started from
NoDeployObs ==
    [op |-> "init", before |-> NoDeploy, deployed |-> FALSE, tag |-> <<>>,
     latest |-> <<>>, cloned |-> FALSE, ranCommand |-> FALSE, err |-> FALSE]

\* One poll of the deploy agent
Poll ==
    /\ now <= MaxPolls
    /\ now' = now + 1
    /\ \E env \in DeployEnvs :
         \E r \in {CheckForNewTag(config, deploy, env, now)} :
            /\ deploy' = r.deploy
            /\ obs' = [op |-> "poll", before |-> deploy, deployed |-> r.deployed,
                       tag |-> r.tag, latest |-> r.latest, cloned |-> r.cloned,
                       ranCommand |-> r.ranCommand, err |-> r.err]
    /\ UNCHANGED <<config, monitor, tasks>>
    /\ UNCHANGED logVars

\* A tag is created in the remote repository
RemoteTag ==
    /\ Len(deploy.remote) < MaxTags
    /\ deploy' = [deploy EXCEPT !.remote = Append(@, <<"v">> \o Itoa(Len(@) + 1))]
    /\ obs' = [obs EXCEPT !.op = "tag"]
    /\ UNCHANGED <<config, now, monitor, tasks>>
    /\ UNCHANGED logVars

InitDeploy ==
    /\ \E cmd \in {<<>>, <<"make">>} : config = [DeployCommand |-> cmd]
    /\ now = 1
    /\ monitor = NoMonitor
    /\ tasks = NoTasks
    /\ \E st \in {"absent", "empty"} : deploy = [NoDeploy EXCEPT !.tree.state = st]
    /\ logs = <<>>
    /\ seenLogs = <<>>
    /\ collector = <<>>
    /\ file = NoFile
    /\ containerLogs = <<>>
    /\ nextCleanup = 0
    /\ reports = <<>>
    /\ obs = NoDeployObs

NextDeploy ==
    \/ Poll
    \/ RemoteTag

SpecDeploy == InitDeploy /\ [][NextDeploy]_vars

\* C24: a poll that finds the local path present and non-empty calls Deploy
\* exactly when the latest tag it read is non-empty and differs from the
\* stored last tag, and then with that tag: the tree is cloned again at the
\* tag and, if one is configured, the deploy command runs after the clone.  A
\* poll that does not deploy leaves the working tree and the status as they
\* were.
C24_DeploysIffNewTag ==
    (obs.op = "poll" /\ obs.before.tree.state = "cloned") =>
        /\ obs.deployed = (obs.latest # <<>> /\ obs.latest # obs.before.status.LastTag)
        /\ obs.deployed =>
              /\ obs.tag = obs.latest
              /\ obs.cloned => deploy.tree = [state |-> "cloned", ref |-> obs.latest]
              /\ obs.ranCommand = (obs.cloned /\ config.DeployCommand # <<>>)
              /\ ~obs.err => (obs.cloned /\ deploy.status.LastTag = obs.latest)
        /\ ~obs.deployed =>
              /\ deploy.tree = obs.before.tree
              /\ deploy.status = obs.before.status
              /\ ~obs.cloned /\ ~obs.ranCommand

\* C24 witness: with the tree at v1 and v1 stored, the tag v2 was created; the
\* poll cloned the tree again at v2, ran the deploy command and stored v2.
C24_Witness ==
    /\ obs.op = "poll"
    /\ obs.before.tree = [state |-> "cloned", ref |-> <<"v", "1">>]
    /\ obs.before.status.LastTag = <<"v", "1">>
    /\ obs.deployed /\ obs.cloned /\ obs.ranCommand /\ ~obs.err
    /\ deploy.tree.ref = <<"v", "2">>
    /\ deploy.status.LastTag = <<"v", "2">>

-----------------------------------------------------------------------------
(* Docker collector: the high-water mark *)

\* A docker source over both containers, with and without deduplication
InitDockerMark ==
    /\ monitor = NoMonitor
    /\ tasks = NoTasks
    /\ deploy = NoDeploy
    /\ \E dedup \in BOOLEAN :
         config = [LogSources |-> <<DockerSource(TimeWindow, FALSE, dedup)>>,
                   SendTo |-> <<"u">>, Token |-> <<"k">>]
    /\ now = TimeWindow
    /\ logs = <<>>
    /\ seenLogs = <<>>
    /\ collector = [i \in {1} |->
                      [NoCollector EXCEPT !.lastTimestamp =
                                              now - config.LogSources[i].Interval]]
    /\ file = NoFile
    /\ containerLogs = [c \in {RunningContainers[k] : k \in 1..2} |-> <<>>]
    /\ nextCleanup = now + CleanupPeriod
    /\ reports = <<>>
    /\ obs = NoObs

SpecDockerMark == InitDockerMark /\ [][NextDocker]_vars

\* The last step was a tick of a docker source
DockerTicked == obs.op = "tick" /\ config.LogSources[obs.src].Type = <<"docker">>

\* The newest of the instants of S and d
MaxOf(S, d) == CHOOSE x \in S \cup {d} : \A y \in S \cup {d} : y <= x

\* Timestamps of the lines the containers returned on the last tick
ReturnedStamps == {parseLogTimestamp(line, obs.at).ts : line \in OutputLines}

\* Timestamps of the returned lines that are stamped after the mark the tick
\* started with and pass the filters of the source
EmittedStamps ==
    {parseLogTimestamp(line, obs.at).ts :
        line \in {l \in OutputLines :
                     /\ parseLogTimestamp(l, obs.at).ts > obs.since
                     /\ shouldIncludeLogLine(parseLogTimestamp(l, obs.at).content,
                                             config.LogSources[obs.src])}}

\* C25 (as claimed): after a docker tick last_timestamp is the newest of its
\* value before the tick and the timestamps of all lines the containers
\* returned, filtered ones included.
C25_MarkIsNewestReturned ==
    DockerTicked => collector[obs.src].lastTimestamp = MaxOf(ReturnedStamps, obs.since)

\* C25 (amended): after a docker tick last_timestamp is the newest of its
\* value before the tick and the timestamps of the returned lines that are
\* stamped after it and pass the include/exclude filters, whether or not
\* dedup dropped them afterwards; it never decreases.
C25_MarkIsNewestEmitted ==
    DockerTicked =>
        /\ collector[obs.src].lastTimestamp = MaxOf(EmittedStamps, obs.since)
        /\ collector[obs.src].lastTimestamp >= obs.since

\* C25 witness: a tick advanced the mark to the timestamp of a line that
\* dedup dropped, while a line the filters dropped, stamped after the old
\* mark, was returned as well.
C25_Witness ==
    /\ DockerTicked
    /\ Len(obs.batch) = 2 /\ Len(obs.survivors) = 1
    /\ obs.batch[2].Timestamp > obs.batch[1].Timestamp
    /\ collector[obs.src].lastTimestamp = obs.batch[2].Timestamp
    /\ \E line \in OutputLines :
          /\ parseLogTimestamp(line, obs.at).ts > obs.since
          /\ ~shouldIncludeLogLine(parseLogTimestamp(line, obs.at).content,
                                   config.LogSources[obs.src])

-----------------------------------------------------------------------------
(* Health checks: the log line of an evaluation *)

\* C27: every evaluation of a check, whatever its type, an unknown type
\* included, writes exactly one line to the log.
C27_OneLogLinePerEvaluation ==
    obs.op = "check" => Len(obs.logged) = 1

-----------------------------------------------------------------------------
(* Shutdown: the subprocesses of the command probe and of the collectors *)

\* The loops that launch a subprocess on a tick: the loop of a command check
\* (sh -c) and the collectors of a command source (sh -c), of a file source
\* read with tail, and of a docker source (docker logs)
Launchers == {"probe", "command", "tail", "docker"}

\* exec.CommandContext(m.ctx, ...) in executeCommandCheck; exec.Command(...)
\* in collectCommandLog, collectFileLogWithTail and collectDockerLogSince
usesCommandContext(o) == o = "probe"

\* A tick of the loop: the subprocess is started and the loop waits in
\* cmd.Run / cmd.Output. With a context that is already done, a command made
\* by CommandContext is not started.
Launch(o) ==
    /\ tasks.procs[o].pc = "select"
    /\ tasks' = [tasks EXCEPT !.procs[o] =
          IF usesCommandContext(o) /\ monitor.cancelled
          THEN [pc |-> "select", cmd |-> "unstarted"]
          ELSE [pc |-> "run", cmd |-> "running"]]
    /\ obs' = [obs EXCEPT !.op = "launch"]
    /\ UNCHANGED <<config, now, monitor>>
    /\ UNCHANGED <<logVars, deploy>>

\* The subprocess finishes on its own and cmd.Run / cmd.Output returns
ProcessExit(o) ==
    /\ tasks.procs[o].pc = "run"
    /\ tasks' = [tasks EXCEPT !.procs[o] = [pc |-> "select", cmd |-> "exited"]]
    /\ obs' = [obs EXCEPT !.op = "exit"]
    /\ UNCHANGED <<config, now, monitor>>
    /\ UNCHANGED <<logVars, deploy>>

\* os/exec kills the subprocess of a command made by CommandContext when the
\* context is done, and cmd.Run returns
ContextKill(o) ==
    /\ tasks.procs[o].pc = "run"
    /\ usesCommandContext(o)
    /\ monitor.cancelled
    /\ tasks' = [tasks EXCEPT !.procs[o] = [pc |-> "select", cmd |-> "killed"]]
    /\ obs' = [obs EXCEPT !.op = "kill"]
    /\ UNCHANGED <<config, now, monitor>>
    /\ UNCHANGED <<logVars, deploy>>

\* The loop's select takes case <-ctx.Done()
LoopReturn(o) ==
    /\ tasks.procs[o].pc = "select"
    /\ monitor.cancelled
    /\ tasks' = [tasks EXCEPT !.procs[o].pc = "done"]
    /\ obs' = [obs EXCEPT !.op = "return"]
    /\ UNCHANGED <<config, now, monitor>>
    /\ UNCHANGED <<logVars, deploy>>

\* m.cancel() and StopLogCollection: the contexts of the loops are cancelled
Shutdown ==
    /\ ~monitor.cancelled
    /\ monitor' = [monitor EXCEPT !.cancelled = TRUE]
    /\ obs' = [obs EXCEPT !.op = "signal"]
    /\ UNCHANGED <<config, now, tasks>>
    /\ UNCHANGED <<logVars, deploy>>

InitShutdown ==
    /\ config = [Checks |-> <<OtherCheck(<<"p">>, <<"command">>)>>,
                 Report |-> [SendTo |-> <<>>, Token |-> <<>>, PrometheusEnable |-> FALSE]]
    /\ now = 0
    /\ monitor = NoMonitor
    /\ tasks = [NoTasks EXCEPT !.start = "waiting",
                               !.procs = [o \in Launchers |->
                                             [pc |-> "select", cmd |-> "none"]]]
    /\ deploy = NoDeploy
    /\ logs = <<>>
    /\ seenLogs = <<>>
    /\ collector = <<>>
    /\ file = NoFile
    /\ containerLogs = <<>>
    /\ nextCleanup = 0
    /\ reports = <<>>
    /\ obs = NoMonitorObs

NextShutdown ==
    \/ \E o \in Launchers : Launch(o)
    \/ \E o \in Launchers : ProcessExit(o)
    \/ \E o \in Launchers : ContextKill(o)
    \/ \E o \in Launchers : LoopReturn(o)
    \/ Shutdown

\* The runtime carries out the kill of a cancelled context and lets a loop
\* whose select is ready proceed; nothing makes a subprocess finish
SpecShutdown ==
    /\ InitShutdown
    /\ [][NextShutdown]_vars
    /\ \A o \in Launchers : WF_vars(ContextKill(o))
    /\ \A o \in Launchers : WF_vars(LoopReturn(o) \/ Launch(o))

\* C28: a subprocess that runs when the token is cancelled is killed and the
\* loop that waits for it returns from the wait, whether or not the
\* subprocess would finish on its own.
C28_CancelKillsSubprocess ==
    \A o \in Launchers :
        (monitor.cancelled /\ tasks.procs[o].pc = "run") ~> (tasks.procs[o].pc # "run")

-----------------------------------------------------------------------------
(* The metrics endpoint: prometheusHandler and the lock of the result store *)

Handlers == 1..Len(tasks.handlers)

\* prometheusHandler up to its first write to the client: m.resultsMux.RLock()
\* with the RUnlock deferred to the return, then the header. With no result
\* stored there is nothing to write and the handler returns at once.
ScrapeBegin ==
    /\ tasks.prometheus = "listening"
    /\ Len(tasks.handlers) < MaxScrapes
    /\ IF DOMAIN monitor.results = {}
       THEN /\ tasks' = [tasks EXCEPT !.handlers =
                            Append(@, [pc |-> "done", left |-> 0, rlock |-> FALSE])]
            /\ UNCHANGED monitor
       ELSE /\ tasks' = [tasks EXCEPT !.handlers =
                            Append(@, [pc |-> "write",
                                       left |-> Cardinality(DOMAIN monitor.results),
                                       rlock |-> TRUE])]
            /\ monitor' = [monitor EXCEPT !.readers = @ + 1]
    /\ obs' = [obs EXCEPT !.op = "scrape"]
    /\ UNCHANGED <<config, now>>
    /\ UNCHANGED <<logVars, deploy>>

\* The client takes the lines of one result: the handler's fmt.Fprintf calls
\* for it return
ScrapeWrite(h) ==
    /\ tasks.handlers[h].pc = "write"
    /\ tasks.handlers[h].left > 0
    /\ tasks' = [tasks EXCEPT !.handlers[h].left = @ - 1]
    /\ obs' = [obs EXCEPT !.op = "write"]
    /\ UNCHANGED <<config, now, monitor>>
    /\ UNCHANGED <<logVars, deploy>>

\* The handler returns: the deferred m.resultsMux.RUnlock()
ScrapeEnd(h) ==
    /\ tasks.handlers[h].pc = "write"
    /\ tasks.handlers[h].left = 0
    /\ tasks' = [tasks EXCEPT !.handlers[h] = [pc |-> "done", left |-> 0, rlock |-> FALSE]]
    /\ monitor' = [monitor EXCEPT !.readers = @ - 1]
    /\ obs' = [obs EXCEPT !.op = "served"]
    /\ UNCHANGED <<config, now>>
    /\ UNCHANGED <<logVars, deploy>>

\* One port check and the metrics server
InitScrape ==
    InitMonitorWith({<<OtherCheck(<<"p">>, <<"port">>)>>},
                    {r \in ReportConfigs : r.PrometheusEnable})

NextScrape ==
    \/ NextMonitor
    \/ ScrapeBegin
    \/ \E h \in Handlers : ScrapeWrite(h)
    \/ \E h \in Handlers : ScrapeEnd(h)

SpecScrape == InitScrape /\ [][NextScrape]_vars

\* C29: no handler of the metrics endpoint holds the lock of the result store
\* while it waits for the client to take what it writes, and a check that has
\* been evaluated can store its result whatever the clients do.
C29_NoLockAcrossSuspension ==
    /\ \A h \in Handlers :
          (tasks.handlers[h].pc = "write" /\ tasks.handlers[h].left > 0) =>
              ~tasks.handlers[h].rlock
    /\ \A i \in Checks :
          (i \in DOMAIN tasks.loops /\ tasks.loops[i].running > 0) =>
              monitor.readers = 0

-----------------------------------------------------------------------------
(* Dedup table: what a pruning pass keeps *)

\* A deduplicating command source without filters, started so that the first
\* pruning pass runs with its cutoff between the timestamps of the lines read
InitPrune ==
    /\ monitor = NoMonitor
    /\ tasks = NoTasks
    /\ deploy = NoDeploy
    /\ config = [LogSources |-> <<CommandSource(TRUE, <<>>)>>,
                 SendTo |-> <<>>, Token |-> <<>>]
    /\ now = Retention - CleanupPeriod + 1
    /\ logs = <<>>
    /\ seenLogs = <<>>
    /\ collector = [i \in {1} |-> NoCollector]
    /\ file = NoFile
    /\ containerLogs = <<>>
    /\ nextCleanup = now + CleanupPeriod
    /\ reports = <<>>
    /\ obs = NoObs

\* A command that prints one line on each run
LineOutputs == {JoinLines(<<line>>) : line \in CmdLines}

NextPrune ==
    \/ \E i \in Sources : CommandTickOn(i, LineOutputs)
    \/ AdvanceTime
    \/ HashCleanupTick

SpecPrune == InitPrune /\ [][NextPrune]_vars

\* The instant of the pruning pass run last
PruneTime == nextCleanup - CleanupPeriod

\* C30: a pruning pass run at time T leaves exactly the entries the table
\* held before whose last-seen is not older than T - 24 hours, each with its
\* timestamp unchanged.
C30_PruneKeepsExactlyRecent ==
    obs.op = "cleanup" =>
        /\ DOMAIN seenLogs =
              {h \in DOMAIN obs.seenBefore : obs.seenBefore[h] >= PruneTime - Retention}
        /\ \A h \in DOMAIN seenLogs : seenLogs[h] = obs.seenBefore[h]

\* C30 witness: a pass deleted an entry older than the cutoff and kept one
\* last seen exactly 24 hours before the pass.
C30_Witness ==
    /\ obs.op = "cleanup"
    /\ \E h \in DOMAIN obs.seenBefore :
          obs.seenBefore[h] < PruneTime - Retention /\ h \notin DOMAIN seenLogs
    /\ \E h \in DOMAIN seenLogs : seenLogs[h] = PruneTime - Retention

-----------------------------------------------------------------------------
(* generateLogHash as a function of the four fields *)

\* Source names as the configuration may give them: any text, the separator
\* of the hash input included
HashSourceNames == {<<"s">>, <<"s", "|", "file", "|", "|", "x">>}

HashTypes == {<<"file">>, <<"docker">>}

HashContainers == {<<>>, <<"c1">>}

\* Contents of log lines: any text
HashContents == {<<"y">>, <<"x", "|", "file", "|", "|", "y">>, <<"a">>}

HashEntries ==
    {[Source |-> s, Type |-> t, Container |-> c, Content |-> x, Timestamp |-> ts,
      Hash |-> <<>>] :
        s \in HashSourceNames, t \in HashTypes, c \in HashContainers,
        x \in HashContents, ts \in {0, TimeWindow}}

NoHashObs == [op |-> "init", e1 |-> <<>>, e2 |-> <<>>, h1 |-> <<>>, h2 |-> <<>>]

\* Two entries are hashed
HashBoth ==
    /\ obs.op = "init"
    /\ obs' = [obs EXCEPT !.op = "hash",
                          !.h1 = generateLogHash(obs.e1),
                          !.h2 = generateLogHash(obs.e2)]
    /\ UNCHANGED <<config, now, monitor, tasks>>
    /\ UNCHANGED <<logVars, deploy>>

InitHash ==
    /\ config = [LogSources |-> <<>>, SendTo |-> <<>>, Token |-> <<>>]
    /\ now = 0
    /\ monitor = NoMonitor
    /\ tasks = NoTasks
    /\ deploy = NoDeploy
    /\ logs = <<>>
    /\ seenLogs = <<>>
    /\ collector = <<>>
    /\ file = NoFile
    /\ containerLogs = <<>>
    /\ nextCleanup = 0
    /\ reports = <<>>
    /\ \E a \in HashEntries, b \in HashEntries :
         obs = [NoHashObs EXCEPT !.e1 = a, !.e2 = b]

NextHash == HashBoth

SpecHash == InitHash /\ [][NextHash]_vars

\* C31: two entries get the same hash exactly when they agree on source,
\* type, container and content, whatever their timestamps.
C31_SameHashIffSameFields ==
    obs.op = "hash" =>
        ((obs.h1 = obs.h2) <=>
            /\ obs.e1.Source = obs.e2.Source
            /\ obs.e1.Type = obs.e2.Type
            /\ obs.e1.Container = obs.e2.Container
            /\ obs.e1.Content = obs.e2.Content)

-----------------------------------------------------------------------------
(* Deduplication with several sources *)

SourceNames == {<<"cmd">>, <<"cmd2">>}

\* Two command sources, each with or without deduplication, under the same
\* name or under different names
InitShared ==
    /\ monitor = NoMonitor
    /\ tasks = NoTasks
    /\ deploy = NoDeploy
    /\ \E d1 \in BOOLEAN, d2 \in BOOLEAN, n2 \in SourceNames :
          config = [LogSources |-> <<CommandSource(d1, <<>>),
                                     [CommandSource(d2, <<>>) EXCEPT !.Name = n2]>>,
                    SendTo |-> <<>>, Token |-> <<>>]
    /\ now = TimeWindow
    /\ logs = <<>>
    /\ seenLogs = <<>>
    /\ collector = [i \in {1, 2} |-> NoCollector]
    /\ file = NoFile
    /\ containerLogs = <<>>
    /\ nextCleanup = now + CleanupPeriod
    /\ reports = <<>>
    /\ obs = NoObs

NextShared == \E i \in Sources : CommandBurstTick(i)

SpecShared == InitShared /\ [][NextShared]_vars

\* C32: a batch emitted by the collector of a source with deduplicate=false
\* is accepted whole by addLogEntries and leaves the dedup table as it was,
\* whatever the other sources are.
C32_DedupOnlyWhereEnabled ==
    (obs.op = "tick" /\ ~config.LogSources[obs.src].Deduplicate) =>
        /\ Len(obs.survivors) = Len(obs.batch)
        /\ seenLogs = obs.seenBefore

-----------------------------------------------------------------------------
(* Deploy-log collector *)

collectDeployLog_Head(source, f, t) ==
    LET maxLines == IF source.MaxLines = 0 THEN DefaultMaxLines ELSE source.MaxLines
        pieces == SplitLines(f.content)
        lines == IF pieces[Len(pieces)] = <<>>
                 THEN SubSeq(pieces, 1, Len(pieces) - 1) ELSE pieces
    IN IF ~f.readable THEN <<>>
       ELSE LinesToEntries(SubSeq(lines, 1, IF Len(lines) < maxLines THEN Len(lines)
                                            ELSE maxLines), source, t)

\* collectDeployLog: nothing when the file is not there or tail fails, else
\* an entry for every non-empty line of tail -n maxLines that passes the
\* filters
collectDeployLog(source, f, t) ==
    LET maxLines == IF source.MaxLines = 0 THEN DefaultMaxLines ELSE source.MaxLines
    IN IF ~f.readable THEN <<>>
       ELSE LinesToEntries(SplitLines(TailOutput(f.content, maxLines)), source, t)

\* One tick of runDeployLogCollection, which returns before its first tick
\* when no deploy_log_file is configured
DeployLogTick(i) ==
    /\ config.LogSources[i].Type = <<"deploy">>
    /\ config.LogSources[i].DeployLogFile # <<>>
    /\ obs.calls < MaxCalls
    /\ AddLogEntries(i, file.content,
                     collectDeployLog(config.LogSources[i], file, now), obs)
    /\ UNCHANGED <<deploy, monitor, tasks, config, now, collector, file, containerLogs,
                   nextCleanup>>

DeploySource(dedup, maxLines, excl) ==
    [ZeroSource EXCEPT !.Name = <<"d">>, !.Type = <<"deploy">>, !.Enabled = TRUE,
                       !.Interval = 1, !.DeployLogFile = <<"deploy.log">>,
                       !.MaxLines = maxLines, !.Deduplicate = dedup,
                       !.ExcludePatterns = excl]

InitDeployLog ==
    /\ monitor = NoMonitor
    /\ tasks = NoTasks
    /\ deploy = NoDeploy
    /\ \E dedup \in BOOLEAN, n \in {0, 1}, excl \in {<<>>, << <<"b">> >>} :
         config = [LogSources |-> <<DeploySource(dedup, n, excl)>>,
                   SendTo |-> <<>>, Token |-> <<>>]
    /\ now = TimeWindow
    /\ logs = <<>>
    /\ seenLogs = <<>>
    /\ collector = [i \in {1} |-> NoCollector]
    /\ \E c \in InitialFiles, r \in BOOLEAN : file = [content |-> c, readable |-> r]
    /\ containerLogs = <<>>
    /\ nextCleanup = now + CleanupPeriod
    /\ reports = <<>>
    /\ obs = NoObs

NextDeployLog ==
    \/ \E i \in Sources : DeployLogTick(i)
    \/ FileAppend

SpecDeployLog == InitDeployLog /\ [][NextDeployLog]_vars

\* The complete and incomplete lines of the file, in order
FileLines(content) ==
    LET pieces == SplitLines(content)
    IN IF pieces[Len(pieces)] = <<>> THEN SubSeq(pieces, 1, Len(pieces) - 1) ELSE pieces

\* The lines a tick of the deploy-log collector has to emit: the non-empty
\* lines among the last max_lines of the file that pass the filters
DeployLinesDue ==
    LET src == config.LogSources[obs.src]
        n == IF src.MaxLines = 0 THEN DefaultMaxLines ELSE src.MaxLines
        IsDue(l) == TrimSpace(l) # <<>> /\ shouldIncludeLogLine(TrimSpace(l), src)
    IN SelectSeq(KeepLast(FileLines(file.content), n), IsDue)

\* C33: the deploy-log collector keeps no position and no high-water mark;
\* every tick on a readable file emits all non-empty filter-passing lines
\* among the last max_lines lines, emitted before or not, and without
\* deduplication all of them are accepted again.
C33_DeployLogReemitted ==
    (obs.op = "tick" /\ config.LogSources[obs.src].Type = <<"deploy">>) =>
        /\ collector[obs.src] = NoCollector
        /\ file.readable =>
              /\ Len(obs.batch) = Len(DeployLinesDue)
              /\ \A k \in 1..Len(obs.batch) :
                    obs.batch[k].Content =
                        parseLogTimestamp(TrimSpace(DeployLinesDue[k]), obs.at).content
        /\ ~config.LogSources[obs.src].Deduplicate =>
              Len(obs.survivors) = Len(obs.batch)

\* C33 witness: without deduplication a second tick on the unchanged file
\* emitted again what the first tick had emitted, one of several lines.
C33_Witness ==
    /\ obs.op = "tick" /\ config.LogSources[obs.src].Type = <<"deploy">>
    /\ ~config.LogSources[obs.src].Deduplicate
    /\ obs.survivors # <<>>
    /\ obs.appended = obs.survivors \o obs.survivors
    /\ Len(FileLines(file.content)) > Len(obs.batch)

-----------------------------------------------------------------------------
(* isDuplicateLog called from two collector goroutines at once *)

Callers == DOMAIN tasks.dedup

RaceContents == {<<"a">>, <<"b">>}

RaceStamps == {0, 1, TimeWindow}

\* isDuplicateLog up to the RUnlock: the table is read under the read lock
DedupLookup(c) ==
    /\ tasks.dedup[c].pc = "call"
    /\ LET hash == generateLogHash(tasks.dedup[c].entry)
       IN tasks' = [tasks EXCEPT !.dedup[c] =
             [@ EXCEPT !.pc = "looked",
                       !.exists = hash \in DOMAIN seenLogs,
                       !.lastSeen = IF hash \in DOMAIN seenLogs THEN seenLogs[hash]
                                    ELSE ZeroTime]]
    /\ obs' = [obs EXCEPT !.op = "lookup", !.src = c]
    /\ UNCHANGED <<deploy, monitor, config, now, logs, seenLogs, collector, file,
                   containerLogs, nextCleanup, reports>>

\* The rest of isDuplicateLog, decided on what the lookup read: a hash not
\* found, or found an hour old or older, is written under the write lock and
\* the entry accepted
DedupRecord(c) ==
    /\ tasks.dedup[c].pc = "looked"
    /\ LET call == tasks.dedup[c]
           hash == generateLogHash(call.entry)
           dup == call.exists /\ call.entry.Timestamp - call.lastSeen < TimeWindow
       IN /\ seenLogs' = IF dup THEN seenLogs
                         ELSE Put(seenLogs, hash, call.entry.Timestamp)
          /\ tasks' = [tasks EXCEPT !.dedup[c] =
                          [@ EXCEPT !.pc = "done", !.accepted = ~dup]]
    /\ obs' = [obs EXCEPT !.op = "record", !.src = c]
    /\ UNCHANGED <<deploy, monitor, config, now, logs, collector, file,
                   containerLogs, nextCleanup, reports>>

\* Two collectors of deduplicating sources with one name and type, each in
\* addLogEntries with one entry
InitRace ==
    /\ monitor = NoMonitor
    /\ deploy = NoDeploy
    /\ config = [LogSources |-> <<CommandSource(TRUE, <<>>), CommandSource(TRUE, <<>>)>>,
                 SendTo |-> <<>>, Token |-> <<>>]
    /\ now = TimeWindow
    /\ logs = <<>>
    /\ \E s \in {<<>>, Put(<<>>, generateLogHash(
                               NewEntry(config.LogSources[1], <<>>, <<"a">>, 0)), 0)} :
         seenLogs = s
    /\ collector = [i \in {1, 2} |-> NoCollector]
    /\ file = NoFile
    /\ containerLogs = <<>>
    /\ nextCleanup = now + CleanupPeriod
    /\ reports = <<>>
    /\ \E x \in [{1, 2} -> RaceContents], ts \in [{1, 2} -> RaceStamps] :
         tasks = [NoTasks EXCEPT !.dedup =
                     [c \in {1, 2} |->
                         [pc |-> "call", exists |-> FALSE, lastSeen |-> ZeroTime,
                          accepted |-> FALSE,
                          entry |-> NewEntry(config.LogSources[c], <<>>, x[c], ts[c])]]]
    /\ obs = NoObs

NextRace ==
    \/ \E c \in Callers : DedupLookup(c)
    \/ \E c \in Callers : DedupRecord(c)

SpecRace == InitRace /\ [][NextRace]_vars

\* C34: of two concurrent calls with entries of one hash stamped less than an
\* hour apart, at most one is accepted.
C34_AtMostOneAccepted ==
    \A c \in Callers, d \in Callers :
        (/\ c # d
         /\ tasks.dedup[c].pc = "done" /\ tasks.dedup[d].pc = "done"
         /\ generateLogHash(tasks.dedup[c].entry) = generateLogHash(tasks.dedup[d].entry)
         /\ tasks.dedup[c].entry.Timestamp - tasks.dedup[d].entry.Timestamp < TimeWindow
         /\ tasks.dedup[d].entry.Timestamp - tasks.dedup[c].entry.Timestamp < TimeWindow)
        => ~(tasks.dedup[c].accepted /\ tasks.dedup[d].accepted)

-----------------------------------------------------------------------------
(* Direct file access: the writer appends while a tick is under way *)

\* collectFileLogFromPosition from the Seek on, when the file may have grown
\* since file.Stat() returned currentSize: the reader reads to the end of the
\* file as it is now, and the position becomes the size Stat returned
readFromPosition(source, pos, currentSize, content, t) ==
    [entries |-> LinesToEntries(ReadLines(SubSeq(content, pos + 1, Len(content))),
                                source, t),
     lastPosition |-> currentSize]

\* collectFileLogFromPosition up to the Seek: file.Stat(), the reset after a
\* truncation, and the return when there is nothing new (a tick that leaves
\* everything as it was)
FileStat(i) ==
    /\ config.LogSources[i].Type = <<"file">>
    /\ collector[i].strategy = "direct"
    /\ tasks.stat[i].pc = "idle"
    /\ obs.calls < MaxCalls
    /\ LET currentSize == Len(file.content)
           pos == IF currentSize < collector[i].lastPosition THEN 0
                  ELSE collector[i].lastPosition
       IN /\ currentSize > pos
          /\ collector' = [collector EXCEPT ![i].lastPosition = pos]
          /\ tasks' = [tasks EXCEPT !.stat[i] = [pc |-> "read", size |-> currentSize]]
    /\ obs' = [obs EXCEPT !.op = "stat", !.src = i]
    /\ UNCHANGED <<deploy, monitor, config, now, logs, seenLogs, file, containerLogs,
                   nextCleanup, reports>>

\* The rest of the tick: the read to the end of the file, the position
\* update, and addLogEntries
FileRead(i) ==
    /\ tasks.stat[i].pc = "read"
    /\ \E r \in {readFromPosition(config.LogSources[i], collector[i].lastPosition,
                                  tasks.stat[i].size, file.content, now)} :
         /\ collector' = [collector EXCEPT ![i].lastPosition = r.lastPosition]
         /\ AddLogEntries(i, file.content, r.entries,
                          FileObs(collector[i].lastPosition, collector[i].lastPosition,
                                  r.entries))
    /\ tasks' = [tasks EXCEPT !.stat[i] = [pc |-> "idle", size |-> 0]]
    /\ UNCHANGED <<deploy, monitor, config, now, file, containerLogs, nextCleanup>>

\* A readable file that is only appended to, read directly by a source
\* without filters
InitAppendOnly ==
    /\ monitor = NoMonitor
    /\ tasks = [NoTasks EXCEPT !.stat = [i \in {1} |-> [pc |-> "idle", size |-> 0]]]
    /\ deploy = NoDeploy
    /\ \E follow \in BOOLEAN :
         config = [LogSources |->
                      <<[FileSource(follow, FALSE) EXCEPT !.ExcludePatterns = <<>>]>>,
                   SendTo |-> <<"u">>, Token |-> <<"k">>]
    /\ now = TimeWindow
    /\ logs = <<>>
    /\ seenLogs = <<>>
    /\ collector = [i \in {1} |-> NoCollector]
    /\ \E c \in InitialFiles : file = [content |-> c, readable |-> TRUE]
    /\ containerLogs = <<>>
    /\ nextCleanup = now + CleanupPeriod
    /\ reports = <<>>
    /\ obs = NoObs

NextAppendOnly ==
    \/ \E i \in Sources : FileStart(i)
    \/ \E i \in Sources : FileStat(i)
    \/ \E i \in Sources : FileRead(i)
    \/ FileAppend

SpecAppendOnly == InitAppendOnly /\ [][NextAppendOnly]_vars

\* The entries due for the complete lines written since the collector started
LinesSinceStart ==
    LinesToEntries(ReadLines(SubSeq(file.content, Len(obs.initial) + 1,
                                    Len(file.content))),
                   config.LogSources[1], now)

\* C35: over all ticks on a file that is only appended to, no complete line
\* is emitted more than once: the entries emitted are never more than the
\* complete non-empty lines written since the collector started.
C35_EachLineAtMostOnce ==
    collector[1].strategy = "direct" => Len(obs.appended) <= Len(LinesSinceStart)

-----------------------------------------------------------------------------
(* Direct file access: a line whose newline comes later *)

Contents(entries) == [k \in 1..Len(entries) |-> entries[k].Content]

\* C36: on a file that was never truncated, once a direct-access tick has
\* read up to the end of a file whose last line is complete, everything
\* written since the collector started has been emitted whole, once and in
\* order, also the lines whose newline was missing at an earlier tick.
C36_LateNewlineLineEmittedWhole ==
    (/\ obs.op = "tick"
     /\ config.LogSources[obs.src].Type = <<"file">>
     /\ collector[obs.src].strategy = "direct"
     /\ obs.truncates = 0
     /\ collector[obs.src].lastPosition = Len(file.content)
     /\ (file.content = <<>> \/ file.content[Len(file.content)] = NL))
    => Contents(obs.appended) = Contents(LinesSinceStart)

-----------------------------------------------------------------------------
(* Docker collector: one high-water mark for several containers *)

\* A container writes a line, which the runtime stamps with the time of the
\* write; no two lines are written at the same instant
ContainerWritesNow ==
    /\ TotalLines(RunningContainers) < MaxContainerLines
    /\ \E c \in DOMAIN containerLogs, tok \in TsTokens, text \in {"a", "b"} :
         /\ TsVal(tok) = now
         /\ containerLogs' = [containerLogs EXCEPT ![c] = Append(@, <<tok, SP, text>>)]
    /\ now' = now + 1
    /\ UNCHANGED <<deploy, monitor, tasks, config, logs, seenLogs, collector, file,
                   nextCleanup, reports, obs>>

\* A docker source over both containers, started at instant 1 with an
\* interval of 1: the seed is 0
InitDockerShared ==
    /\ monitor = NoMonitor
    /\ tasks = NoTasks
    /\ deploy = NoDeploy
    /\ \E all \in BOOLEAN :
         config = [LogSources |-> <<DockerSource(1, all, FALSE)>>,
                   SendTo |-> <<"u">>, Token |-> <<"k">>]
    /\ now = 1
    /\ logs = <<>>
    /\ seenLogs = <<>>
    /\ collector = [i \in {1} |->
                      [NoCollector EXCEPT !.lastTimestamp =
                                              now - config.LogSources[i].Interval]]
    /\ file = NoFile
    /\ containerLogs = [c \in {RunningContainers[k] : k \in 1..2} |-> <<>>]
    /\ nextCleanup = now + CleanupPeriod
    /\ reports = <<>>
    /\ obs = NoObs

NextDockerShared ==
    \/ \E i \in Sources : DockerTick(i)
    \/ ContainerWritesNow

SpecDockerShared == InitDockerShared /\ [][NextDockerShared]_vars

\* The seed of the collector: its start minus one interval
DockerSeed == 1 - config.LogSources[1].Interval

\* C37: after a tick on which docker returned the logs of every container,
\* every line written so far that is stamped after the seed and passes the
\* filters has been emitted, on that tick or an earlier one, whichever
\* container wrote it.
C37_NoLineSkippedAcrossContainers ==
    (/\ obs.op = "tick"
     /\ obs.output = DockerOutputs(RunningContainers, obs.since, {}))
    => \A c \in DOMAIN containerLogs :
          \A k \in 1..Len(containerLogs[c]) :
             LET p == parseLogTimestamp(containerLogs[c][k], obs.at)
             IN (p.ts > DockerSeed /\ shouldIncludeLogLine(p.content, config.LogSources[1]))
                => \E n \in 1..Len(obs.appended) :
                      /\ obs.appended[n].Container = c
                      /\ obs.appended[n].Timestamp = p.ts
                      /\ obs.appended[n].Content = p.content

-----------------------------------------------------------------------------
(* StartLogCollection and StopLogCollection: the collector goroutines *)

\* The log manager's collectors: byName is lm.logCollectors (the context of
\* the collector stored under each name), loops the collector goroutines
\* started so far with the context each selects on, cancelled the contexts
\* whose cancel function was called, made the number of contexts made
NoManager ==
    [byName |-> <<>>, loops |-> <<>>, cancelled |-> {}, made |-> 0, starts |-> 0,
     stop |-> "idle"]

\* The loop of StartLogCollection over the sources: for an enabled source a
\* collector with a context of its own is stored under the source's name,
\* and for a known type its goroutine is started
RECURSIVE startCollectors(_, _)
startCollectors(sources, lm) ==
    IF sources = <<>> THEN lm
    ELSE LET source == Head(sources)
             ctx == lm.made + 1
         IN IF ~source.Enabled THEN startCollectors(Tail(sources), lm)
            ELSE startCollectors(Tail(sources),
                    [lm EXCEPT !.made = ctx,
                               !.byName = Put(@, source.Name, ctx),
                               !.loops = IF source.Type \in KnownTypes
                                         THEN Append(@, [ctx |-> ctx, pc |-> "select"])
                                         ELSE @])

\* StartLogCollection(ctx), called on the manager before it is stopped
StartCollectors ==
    /\ tasks.lm.stop = "idle"
    /\ tasks.lm.starts < MaxStarts
    /\ tasks' = [tasks EXCEPT !.lm =
                    startCollectors(config.LogSources, [@ EXCEPT !.starts = @ + 1])]
    /\ obs' = [obs EXCEPT !.op = "startlogs"]
    /\ UNCHANGED <<deploy, monitor, config, now, logs, seenLogs, collector, file,
                   containerLogs, nextCleanup, reports>>

\* StopLogCollection: cancel() of every collector in lm.logCollectors
StopCollectors ==
    /\ tasks.lm.stop = "idle"
    /\ tasks' = [tasks EXCEPT
                    !.lm.cancelled = @ \cup {tasks.lm.byName[n] : n \in DOMAIN tasks.lm.byName},
                    !.lm.stop = "returned"]
    /\ obs' = [obs EXCEPT !.op = "stoplogs"]
    /\ UNCHANGED <<deploy, monitor, config, now, logs, seenLogs, collector, file,
                   containerLogs, nextCleanup, reports>>

\* A collector loop's select takes case <-collector.ctx.Done()
CollectorReturn(g) ==
    /\ tasks.lm.loops[g].pc = "select"
    /\ tasks.lm.loops[g].ctx \in tasks.lm.cancelled
    /\ tasks' = [tasks EXCEPT !.lm.loops[g].pc = "done"]
    /\ obs' = [obs EXCEPT !.op = "return"]
    /\ UNCHANGED <<deploy, monitor, config, now, logs, seenLogs, collector, file,
                   containerLogs, nextCleanup, reports>>

\* Source k of a configuration whose names need not differ
StopSources ==
    {[ZeroSource EXCEPT !.Name = n, !.Type = t, !.Enabled = e, !.Interval = 1] :
        n \in {<<"s1">>, <<"s2">>}, t \in {<<"command">>, <<"unknown-type">>},
        e \in BOOLEAN}

InitStop ==
    /\ monitor = NoMonitor
    /\ tasks = [NoTasks EXCEPT !.lm = NoManager]
    /\ deploy = NoDeploy
    /\ \E n \in 1..MaxSources : \E srcs \in [1..n -> StopSources] :
         config = [LogSources |-> srcs, SendTo |-> <<>>, Token |-> <<>>]
    /\ now = TimeWindow
    /\ logs = <<>>
    /\ seenLogs = <<>>
    /\ collector = <<>>
    /\ file = NoFile
    /\ containerLogs = <<>>
    /\ nextCleanup = now + CleanupPeriod
    /\ reports = <<>>
    /\ obs = NoObs

NextStop ==
    \/ StartCollectors
    \/ StopCollectors
    \/ \E g \in DOMAIN tasks.lm.loops : CollectorReturn(g)

SpecStop == InitStop /\ [][NextStop]_vars

\* C38: once StopLogCollection has returned, every collector goroutine the
\* manager started has returned or selects on a context that is cancelled,
\* so that it returns without the parent context being cancelled.
C38_StopReachesEveryCollector ==
    tasks.lm.stop = "returned" =>
        \A g \in DOMAIN tasks.lm.loops :
            tasks.lm.loops[g].pc = "done" \/ tasks.lm.loops[g].ctx \in tasks.lm.cancelled

-----------------------------------------------------------------------------
(* HTTP checks: when a result is up *)

\* C39: an HTTP check is up only if it got a response whose code is in
\* [200, 300), whatever expect_status is; a response carrying an expected
\* code outside that range gives down.
C39_UpOnlyWithSuccessCode ==
    (Checked(<<"http">>) /\ obs.result.Status = <<"up">>) =>
        /\ obs.env.transportOk
        /\ 200 <= obs.result.HTTPStatusCode /\ obs.result.HTTPStatusCode < 300
        /\ obs.result.HTTPStatusCode = obs.env.code

\* C39 witness: expect_status is a code outside [200, 300), the response
\* carries exactly that code, and the check is not up.
C39_Witness ==
    /\ Checked(<<"http">>)
    /\ ~NewRequestFails(config.Checks[obs.probe].URL)
    /\ config.Checks[obs.probe].ExpectStatus >= 300
    /\ obs.env.transportOk
    /\ obs.result.HTTPStatusCode = config.Checks[obs.probe].ExpectStatus
    /\ obs.result.Status # <<"up">>

-----------------------------------------------------------------------------
(* Deploy and the stored status *)

\* C40: a poll changes the stored status (last tag, deploy time) only when it
\* called Deploy, the clone succeeded and the deploy command, if one is
\* configured, ran and succeeded; then it stores the deployed tag ("default"
\* for the default branch) with the time of the deploy.  When os.RemoveAll,
\* the clone or the deploy command fails, last tag and deploy time are as
\* before.
C40_StatusSetOnlyAfterSuccess ==
    obs.op = "poll" =>
        /\ deploy.status # obs.before.status =>
              /\ obs.deployed /\ obs.cloned /\ ~obs.err
              /\ obs.ranCommand = (config.DeployCommand # <<>>)
        /\ (obs.deployed /\ ~obs.err) =>
              /\ deploy.status.LastTag
                    = (IF obs.tag = <<>> THEN <<"default">> ELSE obs.tag)
              /\ deploy.status.LastDeployed = now - 1
        /\ obs.err =>
              /\ deploy.status.LastTag = obs.before.status.LastTag
              /\ deploy.status.LastDeployed = obs.before.status.LastDeployed

\* C40 witness: with v1 deployed and stored, the deploy of v2 cloned the tree
\* and its deploy command failed; v1 and its deploy time are still stored.
C40_Witness ==
    /\ obs.op = "poll"
    /\ obs.deployed /\ obs.cloned /\ obs.ranCommand /\ obs.err
    /\ obs.tag = <<"v", "2">>
    /\ deploy.tree.ref = <<"v", "2">>
    /\ deploy.status.LastTag = <<"v", "1">>
    /\ deploy.status.LastDeployed > 0
    /\ deploy.status = obs.before.status

====
